---- MODULE Spec2Model ----
(***************************************************************************)
(* ServerStatusManager of MXDL (src/unnamed/part_000): the address-keyed   *)
(* status cache, the dual-API refresh (fetchServerStatus) and the merge    *)
(* (processServerData, convertOldApiToNewApiFormat); and, from the older   *)
(* single-API version (src/script.js), the normalizer processServerData    *)
(* and the colour-code renderer renderMOTD; and MinecraftStatusApp         *)
(* (src/unnamed/part_000): loadServerStatus and its three triggers.        *)
(*                                                                         *)
(* JavaScript values are tagged records, so that undefined, null, false,   *)
(* 0 and "" stay distinct and `||` / `&&` / property access behave as in   *)
(* the source.  The two non-ASCII literals of the source are written       *)
(* "unknown" and "survival" (the source has them in Chinese).             *)
(***************************************************************************)
EXTENDS Integers, Sequences, FiniteSets, TLC

VARIABLES cache,    \* this.cache : address -> {data, timestamp} | undefined
          now,      \* the value Date.now() returns
          calls,    \* the in-flight getServerStatus invocations
          started,  \* number of getServerStatus invocations so far
          lastDone, \* per address, the most recently completed invocation
          legacy,   \* a call of a function of src/script.js: argument and result
          app       \* MinecraftStatusApp: its loadServerStatus runs, timer and page

vars == <<cache, now, calls, started, lastDone, legacy, app>>

---------------------------------------------------------------------------
(* JavaScript values *)

Undefined == [t |-> "undefined"]
JNull == [t |-> "null"]
Bool(b) == [t |-> "boolean", b |-> b]
Num(n) == [t |-> "number", n |-> n]
Str(s) == [t |-> "string", s |-> s]
Arr(a) == [t |-> "array", a |-> a]
Obj(o) == [t |-> "object", o |-> o]

\* ToBoolean
Truthy(v) ==
    CASE v.t = "undefined" -> FALSE
      [] v.t = "null"      -> FALSE
      [] v.t = "boolean"   -> v.b
      [] v.t = "number"    -> v.n # 0
      [] v.t = "string"    -> v.s # ""
      [] OTHER             -> TRUE

\* a || b
Or(a, b) == IF Truthy(a) THEN a ELSE b

\* v.k for a v that is not null or undefined: a missing key reads undefined
Get(v, k) == IF v.t = "object" /\ k \in DOMAIN v.o THEN v.o[k] ELSE Undefined

\* { ...v, <the keys of over> }
Spread(v, over) == Obj(over @@ v.o)

\* a.length and a[0] of an array
Length(v) == Len(v.a)

First(v) == IF Len(v.a) >= 1 THEN v.a[1] ELSE Undefined

\* the string an array element contributes to Array.prototype.join
ToStr(v) == IF v.t = "string" THEN v.s ELSE ""

RECURSIVE JoinSeq(_, _)
JoinSeq(a, sep) ==
    IF Len(a) = 0 THEN ""
    ELSE IF Len(a) = 1 THEN ToStr(a[1])
    ELSE ToStr(a[1]) \o sep \o JoinSeq(Tail(a), sep)

\* a.join(sep)
Join(v, sep) == Str(JoinSeq(v.a, sep))

\* line => `<span style="color: #ffffff">${line}</span>`
WhiteSpan(v) == Str("<span style=\"color: #ffffff\">" \o ToStr(v) \o "</span>")

\* a.map(WhiteSpan)
MapWhiteSpan(v) == Arr([i \in 1..Len(v.a) |-> WhiteSpan(v.a[i])])

---------------------------------------------------------------------------
(* ServerStatusManager *)

cacheTimeout == 30000

servers == {"play.simpfun.cn:30786", "play.simpfun.cn:17795"}

Unknown == Str("unknown")

\* the code field of the response is not looked at
isNewApiValid_AnyCode(newApiData) ==
    /\ Truthy(newApiData)
    /\ Get(newApiData, "online") # Undefined

\* const isNewApiValid = newApiData && code === 200 && online !== undefined
isNewApiValid(newApiData) ==
    /\ Truthy(newApiData)
    /\ Get(newApiData, "code") = Num(200)
    /\ Get(newApiData, "online") # Undefined

convertOldApiToNewApiFormat(oldApiData) ==
    LET motd == Get(oldApiData, "motd")
        clean == Get(motd, "clean")
        hasMotd == /\ Truthy(motd)
                   /\ Truthy(clean)
                   /\ Length(clean) > 0
        motdClean == IF hasMotd THEN Join(clean, "\n") ELSE Str("")
        motdHtml == IF hasMotd THEN Join(MapWhiteSpan(clean), "<br>") ELSE Str("")
        players == Get(oldApiData, "players")
    IN Obj([code        |-> Num(200),
            online      |-> Or(Get(oldApiData, "online"), Bool(FALSE)),
            ip          |-> Or(Get(oldApiData, "ip"), Unknown),
            port        |-> Or(Get(oldApiData, "port"), Unknown),
            hostname    |-> Or(Get(oldApiData, "hostname"), Unknown),
            players     |-> IF Truthy(players) THEN Get(players, "online") ELSE Num(0),
            max_players |-> IF Truthy(players) THEN Get(players, "max") ELSE Num(0),
            version     |-> Or(Get(oldApiData, "version"), Unknown),
            motd_clean  |-> motdClean,
            motd_html   |-> motdHtml,
            favicon_url |-> Or(Get(oldApiData, "icon"), JNull)])

\* oldApiData && oldApiData.k
OldField(oldApiData, k) == IF Truthy(oldApiData) THEN Get(oldApiData, k) ELSE oldApiData

\* oldApiData && oldApiData.k1 && oldApiData.k1.k2
OldField2(oldApiData, k1, k2) ==
    LET f == OldField(oldApiData, k1)
    IN IF Truthy(f) THEN Get(f, k2) ELSE f

\* the whole array is taken instead of its first line
OldMotdFirst_WholeArray(oldApiData, k) == OldField2(oldApiData, "motd", k)

\* oldApiData && oldApiData.motd && oldApiData.motd.k && oldApiData.motd.k[0]
OldMotdFirst(oldApiData, k) ==
    LET f == OldField2(oldApiData, "motd", k)
    IN IF Truthy(f) THEN First(f) ELSE f

\* newApiData.players || (oldApiData && oldApiData.players ? oldApiData.players.online : 0)
PlayersCount(newCount, oldApiData, k) ==
    Or(newCount,
       IF Truthy(OldField(oldApiData, "players"))
       THEN Get(Get(oldApiData, "players"), k)
       ELSE Num(0))

\* online is copied without the `|| false` default
processServerData_OnlineNoDefault(newApiData, oldApiData) ==
    LET pingValue == IF Truthy(Get(newApiData, "online")) THEN JNull ELSE JNull
        playersList == IF Truthy(OldField2(oldApiData, "players", "list"))
                       THEN Get(Get(oldApiData, "players"), "list")
                       ELSE Arr(<<>>)
        icon == IF Truthy(OldField(oldApiData, "icon"))
                THEN Get(oldApiData, "icon")
                ELSE IF Truthy(Get(newApiData, "favicon_url"))
                     THEN Get(newApiData, "favicon_url")
                     ELSE JNull
        playersOnline == PlayersCount(Get(newApiData, "players"), oldApiData, "online")
        playersMax == PlayersCount(Get(newApiData, "max_players"), oldApiData, "max")
    IN Obj([online       |-> Get(newApiData, "online"),
            ip           |-> Or(Or(Get(newApiData, "ip"), OldField(oldApiData, "ip")), Unknown),
            port         |-> Or(Or(Get(newApiData, "port"), OldField(oldApiData, "port")), Unknown),
            hostname     |-> Or(Or(Get(newApiData, "hostname"), OldField(oldApiData, "hostname")), Unknown),
            icon         |-> icon,
            version      |-> Or(Or(Get(newApiData, "version"), OldField(oldApiData, "version")), Unknown),
            protocol     |-> Or(OldField(oldApiData, "protocol"), Unknown),
            protocolName |-> Or(OldField(oldApiData, "protocolName"), Unknown),
            players      |-> Obj([online |-> playersOnline,
                                  max    |-> playersMax,
                                  list   |-> playersList]),
            motd         |-> Obj([raw   |-> Or(OldField2(oldApiData, "motd", "raw"), Arr(<<>>)),
                                  clean |-> Arr(<<Or(Or(Get(newApiData, "motd_clean"),
                                                        OldMotdFirst(oldApiData, "clean")), Str(""))>>),
                                  html  |-> Arr(<<Or(Or(Get(newApiData, "motd_html"),
                                                        OldMotdFirst(oldApiData, "html")), Str(""))>>)]),
            debug        |-> Obj([ping     |-> pingValue,
                                  query    |-> Or(OldField2(oldApiData, "debug", "query"), Bool(FALSE)),
                                  cacheHit |-> Bool(FALSE)]),
            software     |-> Or(OldField(oldApiData, "software"), Unknown),
            gamemode     |-> Or(OldField(oldApiData, "gamemode"), Str("survival")),
            map          |-> Or(OldField(oldApiData, "map"), Unknown),
            plugins      |-> Or(OldField(oldApiData, "plugins"), Arr(<<>>))])

\* the player list is guarded by players.online instead of players.list
processServerData_ListGuardedByCount(newApiData, oldApiData) ==
    LET pingValue == IF Truthy(Get(newApiData, "online")) THEN JNull ELSE JNull
        playersList == IF Truthy(OldField2(oldApiData, "players", "online"))
                       THEN Get(Get(oldApiData, "players"), "list")
                       ELSE Arr(<<>>)
        icon == IF Truthy(OldField(oldApiData, "icon"))
                THEN Get(oldApiData, "icon")
                ELSE IF Truthy(Get(newApiData, "favicon_url"))
                     THEN Get(newApiData, "favicon_url")
                     ELSE JNull
        playersOnline == PlayersCount(Get(newApiData, "players"), oldApiData, "online")
        playersMax == PlayersCount(Get(newApiData, "max_players"), oldApiData, "max")
    IN Obj([online       |-> Or(Get(newApiData, "online"), Bool(FALSE)),
            ip           |-> Or(Or(Get(newApiData, "ip"), OldField(oldApiData, "ip")), Unknown),
            port         |-> Or(Or(Get(newApiData, "port"), OldField(oldApiData, "port")), Unknown),
            hostname     |-> Or(Or(Get(newApiData, "hostname"), OldField(oldApiData, "hostname")), Unknown),
            icon         |-> icon,
            version      |-> Or(Or(Get(newApiData, "version"), OldField(oldApiData, "version")), Unknown),
            protocol     |-> Or(OldField(oldApiData, "protocol"), Unknown),
            protocolName |-> Or(OldField(oldApiData, "protocolName"), Unknown),
            players      |-> Obj([online |-> playersOnline,
                                  max    |-> playersMax,
                                  list   |-> playersList]),
            motd         |-> Obj([raw   |-> Or(OldField2(oldApiData, "motd", "raw"), Arr(<<>>)),
                                  clean |-> Arr(<<Or(Or(Get(newApiData, "motd_clean"),
                                                        OldMotdFirst(oldApiData, "clean")), Str(""))>>),
                                  html  |-> Arr(<<Or(Or(Get(newApiData, "motd_html"),
                                                        OldMotdFirst(oldApiData, "html")), Str(""))>>)]),
            debug        |-> Obj([ping     |-> pingValue,
                                  query    |-> Or(OldField2(oldApiData, "debug", "query"), Bool(FALSE)),
                                  cacheHit |-> Bool(FALSE)]),
            software     |-> Or(OldField(oldApiData, "software"), Unknown),
            gamemode     |-> Or(OldField(oldApiData, "gamemode"), Str("survival")),
            map          |-> Or(OldField(oldApiData, "map"), Unknown),
            plugins      |-> Or(OldField(oldApiData, "plugins"), Arr(<<>>))])

\* the favicon of the new API is preferred to the icon of the old API
processServerData_NewIconFirst(newApiData, oldApiData) ==
    LET pingValue == IF Truthy(Get(newApiData, "online")) THEN JNull ELSE JNull
        playersList == IF Truthy(OldField2(oldApiData, "players", "list"))
                       THEN Get(Get(oldApiData, "players"), "list")
                       ELSE Arr(<<>>)
        icon == IF Truthy(Get(newApiData, "favicon_url"))
                THEN Get(newApiData, "favicon_url")
                ELSE IF Truthy(OldField(oldApiData, "icon"))
                     THEN Get(oldApiData, "icon")
                     ELSE JNull
        playersOnline == PlayersCount(Get(newApiData, "players"), oldApiData, "online")
        playersMax == PlayersCount(Get(newApiData, "max_players"), oldApiData, "max")
    IN Obj([online       |-> Or(Get(newApiData, "online"), Bool(FALSE)),
            ip           |-> Or(Or(Get(newApiData, "ip"), OldField(oldApiData, "ip")), Unknown),
            port         |-> Or(Or(Get(newApiData, "port"), OldField(oldApiData, "port")), Unknown),
            hostname     |-> Or(Or(Get(newApiData, "hostname"), OldField(oldApiData, "hostname")), Unknown),
            icon         |-> icon,
            version      |-> Or(Or(Get(newApiData, "version"), OldField(oldApiData, "version")), Unknown),
            protocol     |-> Or(OldField(oldApiData, "protocol"), Unknown),
            protocolName |-> Or(OldField(oldApiData, "protocolName"), Unknown),
            players      |-> Obj([online |-> playersOnline,
                                  max    |-> playersMax,
                                  list   |-> playersList]),
            motd         |-> Obj([raw   |-> Or(OldField2(oldApiData, "motd", "raw"), Arr(<<>>)),
                                  clean |-> Arr(<<Or(Or(Get(newApiData, "motd_clean"),
                                                        OldMotdFirst(oldApiData, "clean")), Str(""))>>),
                                  html  |-> Arr(<<Or(Or(Get(newApiData, "motd_html"),
                                                        OldMotdFirst(oldApiData, "html")), Str(""))>>)]),
            debug        |-> Obj([ping     |-> pingValue,
                                  query    |-> Or(OldField2(oldApiData, "debug", "query"), Bool(FALSE)),
                                  cacheHit |-> Bool(FALSE)]),
            software     |-> Or(OldField(oldApiData, "software"), Unknown),
            gamemode     |-> Or(OldField(oldApiData, "gamemode"), Str("survival")),
            map          |-> Or(OldField(oldApiData, "map"), Unknown),
            plugins      |-> Or(OldField(oldApiData, "plugins"), Arr(<<>>))])

\* debug.ping of the old API is passed on
processServerData_PingFromOldApi(newApiData, oldApiData) ==
    LET pingValue == Or(OldField2(oldApiData, "debug", "ping"), JNull)
        playersList == IF Truthy(OldField2(oldApiData, "players", "list"))
                       THEN Get(Get(oldApiData, "players"), "list")
                       ELSE Arr(<<>>)
        icon == IF Truthy(OldField(oldApiData, "icon"))
                THEN Get(oldApiData, "icon")
                ELSE IF Truthy(Get(newApiData, "favicon_url"))
                     THEN Get(newApiData, "favicon_url")
                     ELSE JNull
        playersOnline == PlayersCount(Get(newApiData, "players"), oldApiData, "online")
        playersMax == PlayersCount(Get(newApiData, "max_players"), oldApiData, "max")
    IN Obj([online       |-> Or(Get(newApiData, "online"), Bool(FALSE)),
            ip           |-> Or(Or(Get(newApiData, "ip"), OldField(oldApiData, "ip")), Unknown),
            port         |-> Or(Or(Get(newApiData, "port"), OldField(oldApiData, "port")), Unknown),
            hostname     |-> Or(Or(Get(newApiData, "hostname"), OldField(oldApiData, "hostname")), Unknown),
            icon         |-> icon,
            version      |-> Or(Or(Get(newApiData, "version"), OldField(oldApiData, "version")), Unknown),
            protocol     |-> Or(OldField(oldApiData, "protocol"), Unknown),
            protocolName |-> Or(OldField(oldApiData, "protocolName"), Unknown),
            players      |-> Obj([online |-> playersOnline,
                                  max    |-> playersMax,
                                  list   |-> playersList]),
            motd         |-> Obj([raw   |-> Or(OldField2(oldApiData, "motd", "raw"), Arr(<<>>)),
                                  clean |-> Arr(<<Or(Or(Get(newApiData, "motd_clean"),
                                                        OldMotdFirst(oldApiData, "clean")), Str(""))>>),
                                  html  |-> Arr(<<Or(Or(Get(newApiData, "motd_html"),
                                                        OldMotdFirst(oldApiData, "html")), Str(""))>>)]),
            debug        |-> Obj([ping     |-> pingValue,
                                  query    |-> Or(OldField2(oldApiData, "debug", "query"), Bool(FALSE)),
                                  cacheHit |-> Bool(FALSE)]),
            software     |-> Or(OldField(oldApiData, "software"), Unknown),
            gamemode     |-> Or(OldField(oldApiData, "gamemode"), Str("survival")),
            map          |-> Or(OldField(oldApiData, "map"), Unknown),
            plugins      |-> Or(OldField(oldApiData, "plugins"), Arr(<<>>))])

processServerData(newApiData, oldApiData) ==
    LET pingValue == IF Truthy(Get(newApiData, "online")) THEN JNull ELSE JNull
        playersList == IF Truthy(OldField2(oldApiData, "players", "list"))
                       THEN Get(Get(oldApiData, "players"), "list")
                       ELSE Arr(<<>>)
        icon == IF Truthy(OldField(oldApiData, "icon"))
                THEN Get(oldApiData, "icon")
                ELSE IF Truthy(Get(newApiData, "favicon_url"))
                     THEN Get(newApiData, "favicon_url")
                     ELSE JNull
        playersOnline == PlayersCount(Get(newApiData, "players"), oldApiData, "online")
        playersMax == PlayersCount(Get(newApiData, "max_players"), oldApiData, "max")
    IN Obj([online       |-> Or(Get(newApiData, "online"), Bool(FALSE)),
            ip           |-> Or(Or(Get(newApiData, "ip"), OldField(oldApiData, "ip")), Unknown),
            port         |-> Or(Or(Get(newApiData, "port"), OldField(oldApiData, "port")), Unknown),
            hostname     |-> Or(Or(Get(newApiData, "hostname"), OldField(oldApiData, "hostname")), Unknown),
            icon         |-> icon,
            version      |-> Or(Or(Get(newApiData, "version"), OldField(oldApiData, "version")), Unknown),
            protocol     |-> Or(OldField(oldApiData, "protocol"), Unknown),
            protocolName |-> Or(OldField(oldApiData, "protocolName"), Unknown),
            players      |-> Obj([online |-> playersOnline,
                                  max    |-> playersMax,
                                  list   |-> playersList]),
            motd         |-> Obj([raw   |-> Or(OldField2(oldApiData, "motd", "raw"), Arr(<<>>)),
                                  clean |-> Arr(<<Or(Or(Get(newApiData, "motd_clean"),
                                                        OldMotdFirst(oldApiData, "clean")), Str(""))>>),
                                  html  |-> Arr(<<Or(Or(Get(newApiData, "motd_html"),
                                                        OldMotdFirst(oldApiData, "html")), Str(""))>>)]),
            debug        |-> Obj([ping     |-> pingValue,
                                  query    |-> Or(OldField2(oldApiData, "debug", "query"), Bool(FALSE)),
                                  cacheHit |-> Bool(FALSE)]),
            software     |-> Or(OldField(oldApiData, "software"), Unknown),
            gamemode     |-> Or(OldField(oldApiData, "gamemode"), Str("survival")),
            map          |-> Or(OldField(oldApiData, "map"), Unknown),
            plugins      |-> Or(OldField(oldApiData, "plugins"), Arr(<<>>))])

---------------------------------------------------------------------------
(* src/script.js: the single-API normalizer and the colour-code renderer *)

\* a number with one decimal digit: tenths / 10
Dec(tenths) == [t |-> "number", tenths |-> tenths]

\* the number is cut to its integer part
MathRound_Truncates(v) ==
    IF "tenths" \in DOMAIN v
    THEN Num(IF v.tenths >= 0 THEN v.tenths \div 10 ELSE 0 - ((0 - v.tenths) \div 10))
    ELSE v

\* Math.round: the nearest integer, a half rounds towards +Infinity
MathRound(v) ==
    IF "tenths" \in DOMAIN v THEN Num((v.tenths + 5) \div 10) ELSE v

\* processServerData(data) of src/script.js
processServerData_Legacy(data) ==
    LET ping == Get(Get(data, "debug"), "ping")
        pingValue == IF ping = Bool(TRUE) THEN JNull
                     ELSE IF ping.t = "number" THEN MathRound(ping)
                     ELSE IF ping = Bool(FALSE) \/ ping = Undefined THEN JNull
                     ELSE ping
    IN Obj([online       |-> Or(Get(data, "online"), Bool(FALSE)),
            ip           |-> Or(Get(data, "ip"), Str(Unknown)),
            port         |-> Or(Get(data, "port"), Str(Unknown)),
            hostname     |-> Or(Get(data, "hostname"), Str(Unknown)),
            icon         |-> Or(Get(data, "icon"), JNull),
            version      |-> Or(Get(data, "version"), Str(Unknown)),
            protocol     |-> Or(Get(data, "protocol"), Str(Unknown)),
            protocolName |-> Or(Get(data, "protocol_name"), Str(Unknown)),
            players      |-> Obj([online |-> Or(Get(Get(data, "players"), "online"), Num(0)),
                                  max    |-> Or(Get(Get(data, "players"), "max"), Num(0)),
                                  list   |-> Or(Get(Get(data, "players"), "list"), Arr(<<>>))]),
            motd         |-> Obj([raw   |-> Or(Get(Get(data, "motd"), "raw"), Arr(<<>>)),
                                  clean |-> Or(Get(Get(data, "motd"), "clean"), Arr(<<>>)),
                                  html  |-> Or(Get(Get(data, "motd"), "html"), Arr(<<>>))]),
            debug        |-> Obj([ping     |-> pingValue,
                                  query    |-> Or(Get(Get(data, "debug"), "query"), Bool(FALSE)),
                                  cacheHit |-> Or(Get(Get(data, "debug"), "cachehit"), Bool(FALSE))]),
            software     |-> Or(Get(data, "software"), Str(Unknown)),
            gamemode     |-> Or(Get(data, "gamemode"), Str("survival")),
            map          |-> Or(Get(data, "map"), Str(Unknown)),
            plugins      |-> Or(Get(Get(data, "plugins"), "names"), Arr(<<>>))])

\* A MOTD line is a sequence of one-character strings, and markup is a
\* sequence of tokens: a character of text or a whole tag.  The section
\* sign of the source is written "&".
Sigil == "&"

\* the character class [0-9a-fk-or] of the first replace
ColorCodes ==
    {"0", "1", "2", "3", "4", "5", "6", "7", "8", "9",
     "a", "b", "c", "d", "e", "f", "k", "l", "m", "n", "o", "r"}

CloseSpan == "</span>"

OpenSpan == "<span>"

OpenColor(code) == "<span class=\"mc-color-" \o code \o "\">"

Br == "<br>"

\* the token is a tag that begins with "<span"
IsOpenTag(tok) == tok = OpenSpan \/ \E code \in ColorCodes : tok = OpenColor(code)

\* line.replace(/&([0-9a-fk-or])/g, (match, code) => `</span><span class="mc-color-${code}">`)
RECURSIVE replaceColorCodes(_)
replaceColorCodes(line) ==
    IF line = <<>> THEN <<>>
    ELSE IF Len(line) >= 2 /\ line[1] = Sigil /\ line[2] \in ColorCodes
         THEN <<CloseSpan, OpenColor(line[2])>> \o replaceColorCodes(SubSeq(line, 3, Len(line)))
         ELSE <<line[1]>> \o replaceColorCodes(Tail(line))

\* .replace(/&r/g, '</span><span>')
RECURSIVE replaceReset(_)
replaceReset(line) ==
    IF line = <<>> THEN <<>>
    ELSE IF Len(line) >= 2 /\ line[1] = Sigil /\ line[2] = "r"
         THEN <<CloseSpan, OpenSpan>> \o replaceReset(SubSeq(line, 3, Len(line)))
         ELSE <<line[1]>> \o replaceReset(Tail(line))

\* the closing span is never appended
processedLine_NeverClosed(line) ==
    LET replaced == replaceReset(replaceColorCodes(line))
    IN IF ~(replaced # <<>> /\ IsOpenTag(replaced[1]))
       THEN <<OpenSpan>> \o replaced
       ELSE replaced

\* the callback of motdHtml.map
processedLine(line) ==
    LET replaced == replaceReset(replaceColorCodes(line))
        opened == IF ~(replaced # <<>> /\ IsOpenTag(replaced[1]))
                  THEN <<OpenSpan>> \o replaced
                  ELSE replaced
    IN IF ~(opened[Len(opened)] = CloseSpan)
       THEN Append(opened, CloseSpan)
       ELSE opened

\* lines.join(sep) on markup
RECURSIVE JoinMarkup(_, _)
JoinMarkup(lines, sep) ==
    IF lines = <<>> THEN <<>>
    ELSE IF Len(lines) = 1 THEN lines[1]
    ELSE lines[1] \o <<sep>> \o JoinMarkup(Tail(lines), sep)

\* renderMOTD(motdHtml) of src/script.js
renderMOTD(motdHtml) ==
    IF ~Truthy(motdHtml) \/ motdHtml.t # "array"
    THEN <<>>
    ELSE JoinMarkup([i \in 1..Length(motdHtml) |-> processedLine(motdHtml.a[i])], Br)

---------------------------------------------------------------------------
(* Upstream responses *)

\* fetch rejected (network error)
NetworkError == [kind |-> "network"]

\* response.ok is false (non-2xx)
StatusError == [kind |-> "status"]

\* response.ok, response.json() rejected
SyntaxError == [kind |-> "syntax"]

\* response.ok, response.json() resolved to body
Ok(body) == [kind |-> "ok", body |-> body]

NewOnlineFull ==
    Obj([code |-> Num(200), online |-> Bool(TRUE), ip |-> Str("10.0.0.1"),
         port |-> Num(30786), hostname |-> Str("play.simpfun.cn"),
         players |-> Num(5), max_players |-> Num(50), version |-> Str("1.20.1"),
         motd_clean |-> Str("Hi"), motd_html |-> Str("<b>Hi</b>"),
         favicon_url |-> Str("data:new")])

NewOnlineBare == Obj([code |-> Num(200), online |-> Bool(TRUE)])

NewOnlineEmpty ==
    Obj([code |-> Num(200), online |-> Bool(TRUE), players |-> Num(0), max_players |-> Num(0)])

NewOffline == Obj([code |-> Num(200), online |-> Bool(FALSE)])

NewBlankMotd ==
    Obj([code |-> Num(200), online |-> Bool(TRUE), players |-> Num(1), max_players |-> Num(10),
         motd_clean |-> Str(""), motd_html |-> Str("")])

NewOnlineNull == Obj([code |-> Num(200), online |-> JNull])

NewBadCode == Obj([code |-> Num(500), online |-> Bool(TRUE), players |-> Num(7), max_players |-> Num(9)])

NewNoOnline == Obj([code |-> Num(200), players |-> Num(7), max_players |-> Num(9)])

OldFull ==
    Obj([online |-> Bool(TRUE), ip |-> Str("10.0.0.2"), port |-> Num(17795),
         hostname |-> Str("old.simpfun.cn"), icon |-> Str("data:old"),
         version |-> Str("1.19"), protocol |-> Num(763), protocolName |-> Str("1.20.1"),
         motd |-> Obj([raw   |-> Arr(<<Str("&aHello"), Str("World")>>),
                       clean |-> Arr(<<Str("Hello"), Str("World")>>),
                       html  |-> Arr(<<Str("<i>Hello</i>"), Str("<i>World</i>")>>)]),
         players |-> Obj([online |-> Num(2), max |-> Num(20),
                          list |-> Arr(<<Str("Alice"), Str("Bob")>>)]),
         debug |-> Obj([ping |-> Bool(TRUE), query |-> Bool(TRUE), cachehit |-> Bool(FALSE)]),
         software |-> Str("Paper"), gamemode |-> Str("creative"), map |-> Str("world"),
         plugins |-> Obj([names |-> Arr(<<Str("Essentials")>>)])])

OldCounts == Obj([online |-> Bool(TRUE), players |-> Obj([online |-> Num(3), max |-> Num(20)])])

OldZero == Obj([online |-> Bool(TRUE), players |-> Obj([online |-> Num(0), max |-> Num(0)])])

OldOffline == Obj([online |-> Bool(FALSE), ip |-> Str("10.0.0.2"), port |-> Num(17795)])

OldEmpty == Obj([debug |-> Obj([ping |-> Bool(FALSE)])])

OldListOnly == Obj([online |-> Bool(TRUE), players |-> Obj([list |-> Arr(<<Str("Alice")>>)])])

Failures == {NetworkError, StatusError, SyntaxError}

\* every outcome of the request to the new API
AllNewApi ==
    Failures \cup {Ok(b) : b \in {NewOnlineFull, NewOnlineBare, NewOnlineEmpty, NewOffline, NewBlankMotd,
                                  NewOnlineNull, NewBadCode, NewNoOnline, JNull}}

\* every outcome of the request to the old API
AllOldApi ==
    Failures \cup {Ok(b) : b \in {OldFull, OldCounts, OldZero, OldOffline, OldEmpty, OldListOnly,
                                  JNull}}

\* the outcomes used where invocations overlap
FewNewApi == {NetworkError, Ok(NewOnlineBare)}

FewOldApi == {StatusError, Ok(OldCounts)}

\* the outcomes used for the page: the new API is down or reports the
\* server offline or online, the old API fails or answers in full
AppNewApi == {NetworkError, Ok(NewOffline), Ok(NewOnlineBare)}

AppOldApi == {StatusError, Ok(OldFull)}

---------------------------------------------------------------------------
(* Bounds *)

MaxCalls == 2
MaxStarted == 2
MaxNow == 30000

Calls == 1..MaxCalls

\* the amounts by which the clock advances between two steps
Elapse == {cacheTimeout - 1, cacheTimeout}

MaxTenths == 25
MaxLineLen == 3
MaxLoads == 2
MaxChecks == 2

\* the runs of loadServerStatus
Loads == 1..MaxLoads

\* the getServerStatus invocations of the runs: two for each
AppCalls == 1..(2 * MaxLoads)

\* the invocations of checkCustomServer; the k-th awaits the getServerStatus
\* invocation in slot k
Checks == 1..MaxChecks

\* the keys pressed in the address field
Keys == {"Enter", "a"}

\* what the address field holds when a check is asked for
CustomInputs == servers \cup {""}

\* the instants at which the page does something
Instants == {cacheTimeout - 1, cacheTimeout, MaxNow}

\* the debug.ping values of a response: numbers with a decimal digit, whole
\* numbers, the booleans, null and a string
Pings ==
    {Dec(k) : k \in (0 - MaxTenths)..MaxTenths} \cup
    {Dec(427), Num(42), Bool(TRUE), Bool(FALSE), JNull, Str("12")}

\* the responses given to the normalizer: with each ping, with a debug
\* object without ping, and without a debug object
LegacyData ==
    {Spread(OldFull, [debug |-> Obj([ping |-> p, query |-> Bool(TRUE)])]) : p \in Pings} \cup
    {Spread(OldFull, [debug |-> Obj([query |-> Bool(TRUE)])]), OldOffline}

Chars == {Sigil, "a", "r", "k", "4", "x"}

RECURSIVE LinesOfLen(_)
LinesOfLen(n) ==
    IF n = 0 THEN {<<>>}
    ELSE {<<ch>> \o l : ch \in Chars, l \in LinesOfLen(n - 1)}

Lines == UNION {LinesOfLen(n) : n \in 0..MaxLineLen}

\* "&aHello&r World"
HelloWorld ==
    <<Sigil, "a", "H", "e", "l", "l", "o", Sigil, "r", " ", "W", "o", "r", "l", "d">>

PairedLines == {<<>>, <<"x">>, <<Sigil, "a">>, <<Sigil, "r", "x">>, <<"x", Sigil, "k">>, HelloWorld}

\* the arguments given to renderMOTD: one line, two lines, no line, and
\* values that are not arrays
MotdInputs ==
    {Arr(<<l>>) : l \in Lines \cup {HelloWorld}} \cup
    {Arr(<<l, m>>) : l \in PairedLines, m \in PairedLines} \cup
    {Arr(<<>>), Undefined, JNull}

---------------------------------------------------------------------------
(* getServerStatus as a process: one step per await *)

Idle ==
    [pc |-> "idle", id |-> 0, serverAddress |-> "", now |-> 0, cached |-> Undefined,
     path |-> "",
     newApi |-> Undefined, oldApi |-> Undefined,
     newApiData |-> JNull, oldApiData |-> JNull,
     requests |-> 0, freshData |-> Undefined, result |-> Undefined]

Return(value) == [kind |-> "return", value |-> value]

Throw == [kind |-> "throw"]

\* no function of src/script.js is called
NotCalled == [op |-> "none", arg |-> Undefined, done |-> FALSE, out |-> Undefined]

\* the innerHTML of #checkCustom as the page is served
CheckLabel == "check"

\* line 644: the innerHTML of #checkCustom while a check waits
CheckingLabel == "<i class=\"fas fa-spinner fa-spin\"></i> checking..."

\* the page before DOMContentLoaded: no run, an empty grid, no timer, the
\* check button as served, no check asked for
NotLoaded ==
    [initialized |-> FALSE, nextInterval |-> 0,
     loads |-> [l \in Loads |-> [pc |-> "idle", trigger |-> ""]],
     serversGrid |-> <<>>, allPlayers |-> <<>>,
     checkBtn |-> [innerHTML |-> CheckLabel, disabled |-> FALSE],
     checks |-> [k \in Checks |-> [pc |-> "idle", by |-> "", originalText |-> ""]],
     customResult |-> Undefined]

Init ==
    /\ cache = [a \in servers |-> Undefined]
    /\ now = 0
    /\ calls = [c \in Calls |-> Idle]
    /\ started = 0
    /\ lastDone = [a \in servers |-> Undefined]
    /\ legacy = NotCalled
    /\ app = NotLoaded

\* the invocation c ends: its promise settles
Settle(c, call) ==
    /\ calls' = [calls EXCEPT ![c] = [call EXCEPT !.pc = "done"]]
    /\ lastDone' = [lastDone EXCEPT ![call.serverAddress] = [call EXCEPT !.pc = "done"]]

\* the refresh result is returned but never put in the cache
Succeed_NotCached(c, call, freshData) ==
    /\ UNCHANGED cache
    /\ Settle(c, [call EXCEPT !.freshData = freshData,
                              !.result = Return(Spread(freshData, [fromCache |-> Bool(FALSE)]))])

\* the object handed to the caller (with its fromCache flag) is what gets cached
Succeed_CachesReturned(c, call, freshData) ==
    /\ cache' = [cache EXCEPT ![call.serverAddress] =
                     [data |-> Spread(freshData, [fromCache |-> Bool(FALSE)]),
                      timestamp |-> call.now]]
    /\ Settle(c, [call EXCEPT !.freshData = freshData,
                              !.result = Return(Spread(freshData, [fromCache |-> Bool(FALSE)]))])

\* an entry is only replaced by one whose call started later
Succeed_KeepsNewerEntry(c, call, freshData) ==
    /\ cache' = [cache EXCEPT ![call.serverAddress] =
                     IF @ # Undefined /\ @.timestamp > call.now THEN @
                     ELSE [data |-> freshData, timestamp |-> call.now]]
    /\ Settle(c, [call EXCEPT !.freshData = freshData,
                              !.result = Return(Spread(freshData, [fromCache |-> Bool(FALSE)]))])

\* a replaced entry keeps the timestamp it had
Succeed_KeepsTimestamp(c, call, freshData) ==
    /\ cache' = [cache EXCEPT ![call.serverAddress] =
                     [data |-> freshData,
                      timestamp |-> IF @ # Undefined THEN @.timestamp ELSE call.now]]
    /\ Settle(c, [call EXCEPT !.freshData = freshData,
                              !.result = Return(Spread(freshData, [fromCache |-> Bool(FALSE)]))])

\* the entry is stamped with Date.now() read when the refresh has returned
Succeed_StampsAtCompletion(c, call, freshData) ==
    /\ cache' = [cache EXCEPT ![call.serverAddress] =
                     [data |-> freshData, timestamp |-> now]]
    /\ Settle(c, [call EXCEPT !.freshData = freshData,
                              !.result = Return(Spread(freshData, [fromCache |-> Bool(FALSE)]))])

\* lines 33-38: the refresh returned freshData
Succeed(c, call, freshData) ==
    /\ cache' = [cache EXCEPT ![call.serverAddress] =
                     [data |-> freshData, timestamp |-> call.now]]
    /\ Settle(c, [call EXCEPT !.freshData = freshData,
                              !.result = Return(Spread(freshData, [fromCache |-> Bool(FALSE)]))])

\* the stale answer is not flagged as an error
Fail_NoErrorFlag(c, call) ==
    /\ UNCHANGED cache
    /\ Settle(c, [call EXCEPT !.result =
                      IF call.cached # Undefined
                      THEN Return(Spread(call.cached.data, [fromCache |-> Bool(TRUE)]))
                      ELSE Throw])

\* a failure without stale data answers with an empty status instead of throwing
Fail_Swallowed(c, call) ==
    /\ UNCHANGED cache
    /\ Settle(c, [call EXCEPT !.result =
                      IF call.cached # Undefined
                      THEN Return(Spread(call.cached.data,
                                         [fromCache |-> Bool(TRUE), error |-> Bool(TRUE)]))
                      ELSE Return(Obj([error |-> Bool(TRUE)]))])

\* a failed refresh deletes the entry of the address
Fail_EvictsEntry(c, call) ==
    /\ cache' = [cache EXCEPT ![call.serverAddress] = Undefined]
    /\ Settle(c, [call EXCEPT !.result =
                      IF call.cached # Undefined
                      THEN Return(Spread(call.cached.data,
                                         [fromCache |-> Bool(TRUE), error |-> Bool(TRUE)]))
                      ELSE Throw])

\* the stale answer, flags included, is stored back as the entry's data
Fail_CachesStaleAnswer(c, call) ==
    /\ cache' = IF call.cached # Undefined
                THEN [cache EXCEPT ![call.serverAddress] =
                         [data |-> Spread(call.cached.data,
                                          [fromCache |-> Bool(TRUE), error |-> Bool(TRUE)]),
                          timestamp |-> call.cached.timestamp]]
                ELSE cache
    /\ Settle(c, [call EXCEPT !.result =
                      IF call.cached # Undefined
                      THEN Return(Spread(call.cached.data,
                                         [fromCache |-> Bool(TRUE), error |-> Bool(TRUE)]))
                      ELSE Throw])

\* lines 39-45: the refresh threw
Fail(c, call) ==
    /\ UNCHANGED cache
    /\ Settle(c, [call EXCEPT !.result =
                      IF call.cached # Undefined
                      THEN Return(Spread(call.cached.data,
                                         [fromCache |-> Bool(TRUE), error |-> Bool(TRUE)]))
                      ELSE Throw])

\* no invocation is running in slot c
Free(c) == calls[c].pc \in {"idle", "done"}

\* a call for an address whose refresh is in flight waits for that refresh
\* instead of starting its own
getServerStatus_SingleFlight(c, serverAddress) ==
    /\ Free(c)
    /\ \A b \in Calls : Free(b) =>
          (calls[b].id > calls[c].id \/ (calls[b].id = calls[c].id /\ b >= c))
    /\ started < MaxStarted
    /\ started' = started + 1
    /\ UNCHANGED <<cache, now, legacy, app>>
    /\ LET cached == cache[serverAddress]
           call == [Idle EXCEPT !.id = started + 1, !.serverAddress = serverAddress,
                                !.now = now, !.cached = cached]
       IN IF \E b \in DOMAIN calls : /\ calls[b].pc \in {"newApi", "oldApi", "fallback"}
                                      /\ calls[b].serverAddress = serverAddress
          THEN /\ calls' = [calls EXCEPT ![c] = [call EXCEPT !.pc = "joined"]]
               /\ UNCHANGED lastDone
          ELSE IF cached # Undefined /\ now - cached.timestamp < cacheTimeout
          THEN Settle(c, [call EXCEPT !.result =
                             Return(Spread(cached.data, [fromCache |-> Bool(TRUE)]))])
          ELSE /\ calls' = [calls EXCEPT ![c] = [call EXCEPT !.pc = "newApi", !.requests = 1]]
               /\ UNCHANGED lastDone

\* the old-API request is sent together with the new-API request instead of
\* after its answer
getServerStatus_BothAtOnce(c, serverAddress) ==
    /\ Free(c)
    /\ \A b \in Calls : Free(b) =>
          (calls[b].id > calls[c].id \/ (calls[b].id = calls[c].id /\ b >= c))
    /\ started < MaxStarted
    /\ started' = started + 1
    /\ UNCHANGED <<cache, now, legacy, app>>
    /\ LET cached == cache[serverAddress]
           call == [Idle EXCEPT !.id = started + 1, !.serverAddress = serverAddress,
                                !.now = now, !.cached = cached]
       IN IF cached # Undefined /\ now - cached.timestamp < cacheTimeout
          THEN Settle(c, [call EXCEPT !.result =
                             Return(Spread(cached.data, [fromCache |-> Bool(TRUE)]))])
          ELSE /\ calls' = [calls EXCEPT ![c] = [call EXCEPT !.pc = "newApi", !.requests = 2]]
               /\ UNCHANGED lastDone

\* lines 23-32 and 49-55: up to the first await; the invocation takes the
\* slot that has been free longest
getServerStatus(c, serverAddress) ==
    /\ Free(c)
    /\ \A b \in Calls : Free(b) =>
          (calls[b].id > calls[c].id \/ (calls[b].id = calls[c].id /\ b >= c))
    /\ started < MaxStarted
    /\ started' = started + 1
    /\ UNCHANGED <<cache, now, legacy, app>>
    /\ LET cached == cache[serverAddress]
           call == [Idle EXCEPT !.id = started + 1, !.serverAddress = serverAddress,
                                !.now = now, !.cached = cached]
       IN IF cached # Undefined /\ now - cached.timestamp < cacheTimeout
          THEN Settle(c, [call EXCEPT !.result =
                             Return(Spread(cached.data, [fromCache |-> Bool(TRUE)]))])
          ELSE /\ calls' = [calls EXCEPT ![c] = [call EXCEPT !.pc = "newApi", !.requests = 1]]
               /\ UNCHANGED lastDone

\* lines 55-87: the new API answered (or the request failed)
newApiResponds(c, outcome) ==
    /\ calls[c].pc = "newApi"
    /\ UNCHANGED <<now, started, legacy, app>>
    /\ LET newApiData == IF outcome.kind = "ok" THEN outcome.body ELSE JNull
           call == [calls[c] EXCEPT !.newApi = outcome, !.newApiData = newApiData]
       IN IF isNewApiValid(newApiData)
          THEN IF Truthy(Get(newApiData, "online"))
               THEN /\ calls' = [calls EXCEPT ![c] =
                                    [call EXCEPT !.pc = "oldApi", !.path = "merge",
                                                 !.requests = @ + 1]]
                    /\ UNCHANGED <<cache, lastDone>>
               ELSE Succeed(c, [call EXCEPT !.path = "merge"],
                            processServerData(newApiData, JNull))
          ELSE /\ calls' = [calls EXCEPT ![c] =
                               [call EXCEPT !.pc = "fallback", !.path = "fallback",
                                            !.requests = @ + 1]]
               /\ UNCHANGED <<cache, lastDone>>

\* a failure of the supplementary request is not caught
oldApiResponds_Fatal(c, outcome) ==
    /\ calls[c].pc = "oldApi"
    /\ UNCHANGED <<now, started, legacy, app>>
    /\ LET oldApiData == IF outcome.kind = "ok" THEN outcome.body ELSE JNull
           call == [calls[c] EXCEPT !.oldApi = outcome, !.oldApiData = oldApiData]
       IN IF outcome.kind = "ok"
          THEN Succeed(c, call, processServerData(call.newApiData, oldApiData))
          ELSE Fail(c, call)

\* lines 76-87: the old API answered the request for supplementary data
oldApiResponds(c, outcome) ==
    /\ calls[c].pc = "oldApi"
    /\ UNCHANGED <<now, started, legacy, app>>
    /\ LET oldApiData == IF outcome.kind = "ok" THEN outcome.body ELSE JNull
           call == [calls[c] EXCEPT !.oldApi = outcome, !.oldApiData = oldApiData]
       IN Succeed(c, call, processServerData(call.newApiData, oldApiData))

\* the fallback merges the rejected new-API body instead of the converted one
fallbackResponds_KeepsNewApi(c, outcome) ==
    /\ calls[c].pc = "fallback"
    /\ UNCHANGED <<now, started, legacy, app>>
    /\ LET oldApiData == IF outcome.kind = "ok" THEN outcome.body ELSE JNull
           call == [calls[c] EXCEPT !.oldApi = outcome, !.oldApiData = oldApiData]
       IN IF outcome.kind = "ok" /\ oldApiData # JNull
          THEN Succeed(c, call,
                       processServerData(IF Truthy(call.newApiData) THEN call.newApiData
                                         ELSE convertOldApiToNewApiFormat(oldApiData),
                                         oldApiData))
          ELSE Fail(c, call)

\* lines 92-107: the old API answered the fallback request; a body of null
\* makes convertOldApiToNewApiFormat throw a TypeError, caught at line 104
fallbackResponds(c, outcome) ==
    /\ calls[c].pc = "fallback"
    /\ UNCHANGED <<now, started, legacy, app>>
    /\ LET oldApiData == IF outcome.kind = "ok" THEN outcome.body ELSE JNull
           call == [calls[c] EXCEPT !.oldApi = outcome, !.oldApiData = oldApiData]
       IN IF outcome.kind = "ok" /\ oldApiData # JNull
          THEN Succeed(c, call, processServerData(convertOldApiToNewApiFormat(oldApiData),
                                                  oldApiData))
          ELSE Fail(c, call)

\* time passes
Tick(d) ==
    /\ now + d <= MaxNow
    /\ now' = now + d
    /\ UNCHANGED <<cache, calls, started, lastDone, legacy, app>>

Next ==
    \/ \E c \in Calls, a \in servers : getServerStatus(c, a)
    \/ \E c \in Calls, o \in FewNewApi : newApiResponds(c, o)
    \/ \E c \in Calls, o \in FewOldApi : oldApiResponds(c, o)
    \/ \E c \in Calls, o \in FewOldApi : fallbackResponds(c, o)
    \/ \E d \in Elapse : Tick(d)

Spec == Init /\ [][Next]_vars

\* Time passes whatever the upstream APIs do; fetch is called without a
\* signal or timer, so nothing but a response ends a request, and no
\* response is promised.
SpecUnanswered == Init /\ [][Next]_vars /\ WF_vars(\E d \in Elapse : Tick(d))

\* an invocation made once every earlier one has settled
getServerStatusAwaited(c, serverAddress) ==
    /\ \A b \in Calls : Free(b)
    /\ getServerStatus(c, serverAddress)

\* one invocation at a time for one address, over every upstream outcome
NextSeq ==
    \/ \E c \in Calls : getServerStatusAwaited(c, "play.simpfun.cn:30786")
    \/ \E c \in Calls, o \in AllNewApi : newApiResponds(c, o)
    \/ \E c \in Calls, o \in AllOldApi : oldApiResponds(c, o)
    \/ \E c \in Calls, o \in AllOldApi : fallbackResponds(c, o)
    \/ Tick(cacheTimeout)

SpecSeq == Init /\ [][NextSeq]_vars

\* fetchServerStatus of src/script.js hands the response to processServerData
callProcessServerData ==
    /\ legacy.op = "processServerData" /\ ~legacy.done
    /\ legacy' = [legacy EXCEPT !.done = TRUE, !.out = processServerData_Legacy(legacy.arg)]
    /\ UNCHANGED <<cache, now, calls, started, lastDone, app>>

\* generateServerCardHTML of src/script.js hands status.motd.html to renderMOTD
callRenderMOTD ==
    /\ legacy.op = "renderMOTD" /\ ~legacy.done
    /\ legacy' = [legacy EXCEPT !.done = TRUE, !.out = renderMOTD(legacy.arg)]
    /\ UNCHANGED <<cache, now, calls, started, lastDone, app>>

InitLegacy ==
    /\ cache = [a \in servers |-> Undefined]
    /\ now = 0
    /\ calls = [c \in Calls |-> Idle]
    /\ started = 0
    /\ lastDone = [a \in servers |-> Undefined]
    /\ app = NotLoaded
    /\ \/ \E data \in LegacyData :
             legacy = [op |-> "processServerData", arg |-> data, done |-> FALSE, out |-> Undefined]
       \/ \E motdHtml \in MotdInputs :
             legacy = [op |-> "renderMOTD", arg |-> motdHtml, done |-> FALSE, out |-> Undefined]

NextLegacy ==
    \/ callProcessServerData
    \/ callRenderMOTD

\* the functions of src/script.js applied to every argument of the bounds
SpecLegacy == InitLegacy /\ [][NextLegacy]_vars

---------------------------------------------------------------------------
(* MinecraftStatusApp: loadServerStatus and what triggers it *)

\* this.statusManager.servers[serverId].address
Address(serverId) ==
    IF serverId = "1" THEN "play.simpfun.cn:30786" ELSE "play.simpfun.cn:17795"

\* the slot of the invocation that run l makes for the i-th server
SlotOf(l, i) == 2 * (l - 1) + i

\* lines 23-32 and 49-55: getServerStatus(serverAddress) up to its first
\* await, as the invocation record it leaves behind
Entered(serverAddress, id) ==
    LET cached == cache[serverAddress]
        call == [Idle EXCEPT !.id = id, !.serverAddress = serverAddress,
                             !.now = now, !.cached = cached]
    IN IF cached # Undefined /\ now - cached.timestamp < cacheTimeout
       THEN [call EXCEPT !.pc = "done",
                         !.result = Return(Spread(cached.data, [fromCache |-> Bool(TRUE)]))]
       ELSE [call EXCEPT !.pc = "newApi", !.requests = 1]

\* the loading spinner, the only child of the grid while a run waits
Spinner == [serverId |-> "", status |-> Undefined]

\* lines 431-437 and 444-450: what is rendered for a rejected invocation
Placeholder ==
    Obj([online  |-> Bool(FALSE),
         error   |-> Bool(TRUE),
         players |-> Obj([online |-> Num(0), max |-> Num(0), list |-> Arr(<<>>)]),
         motd    |-> Obj([raw |-> Arr(<<>>), clean |-> Arr(<<>>), html |-> Arr(<<>>)]),
         debug   |-> Obj([ping |-> JNull, query |-> Bool(FALSE), cacheHit |-> Bool(FALSE)])])

\* renderServerCard(serverId, status) for a settled invocation
Card(serverId, settled) ==
    [serverId |-> serverId,
     status |-> IF settled.kind = "return" THEN settled.value ELSE Placeholder]

\* lines 547-554: the player lists of the cached statuses of both servers
PlayersOf(serverId) ==
    LET cached == cache[Address(serverId)]
    IN IF /\ cached # Undefined
          /\ Truthy(Get(cached.data, "online"))
          /\ Truthy(Get(Get(cached.data, "players"), "list"))
       THEN Get(Get(cached.data, "players"), "list").a
       ELSE <<>>

\* both invocations are for the first server
loadServerStatus_FirstServerTwice(l, trigger, nextInterval) ==
    /\ app.loads[l].pc = "idle"
    /\ \A k \in 1..(l - 1) : app.loads[k].pc # "idle"
    /\ \A k \in Loads : app.loads[k].pc # "waiting"
    /\ LET first == Entered(Address("1"), started + 1)
           second == Entered(Address("1"), started + 2)
       IN /\ calls' = [calls EXCEPT ![SlotOf(l, 1)] = first, ![SlotOf(l, 2)] = second]
          /\ lastDone' = [a \in servers |->
                             IF a = Address("1") /\ second.pc = "done" THEN second
                             ELSE lastDone[a]]
    /\ started' = started + 2
    /\ app' = [app EXCEPT !.initialized = TRUE, !.nextInterval = nextInterval,
                          !.loads[l] = [pc |-> "waiting", trigger |-> trigger],
                          !.serversGrid = <<Spinner>>]
    /\ UNCHANGED <<cache, now, legacy>>

\* lines 415-426: loadServerStatus up to its await: the spinner is shown
\* and getServerStatus is called for both servers, one after the other with
\* no await in between; nextInterval is the time of the next timer tick.
\* The runs are taken one at a time: a trigger that comes while a run waits
\* is left out here (overlapping invocations are what Spec is about).
loadServerStatus(l, trigger, nextInterval) ==
    /\ app.loads[l].pc = "idle"
    /\ \A k \in 1..(l - 1) : app.loads[k].pc # "idle"
    /\ \A k \in Loads : app.loads[k].pc # "waiting"
    /\ LET first == Entered(Address("1"), started + 1)
           second == Entered(Address("2"), started + 2)
       IN /\ calls' = [calls EXCEPT ![SlotOf(l, 1)] = first, ![SlotOf(l, 2)] = second]
          /\ lastDone' = [a \in servers |->
                             IF a = Address("1") /\ first.pc = "done" THEN first
                             ELSE IF a = Address("2") /\ second.pc = "done" THEN second
                             ELSE lastDone[a]]
    /\ started' = started + 2
    /\ app' = [app EXCEPT !.initialized = TRUE, !.nextInterval = nextInterval,
                          !.loads[l] = [pc |-> "waiting", trigger |-> trigger],
                          !.serversGrid = <<Spinner>>]
    /\ UNCHANGED <<cache, now, legacy>>

\* lines 371-375: init() loads the statuses and sets the timer
init(l) ==
    /\ ~app.initialized
    /\ loadServerStatus(l, "init", now + 30000)

\* lines 726-728: the callback of setInterval(..., 30000)
intervalFires(l) ==
    /\ app.initialized
    /\ now >= app.nextInterval
    /\ loadServerStatus(l, "interval", app.nextInterval + 30000)

\* lines 731-735: visibilitychange with document.hidden false
visibilitychange(l) ==
    /\ app.initialized
    /\ loadServerStatus(l, "visibilitychange", app.nextInterval)

\* as with Promise.all: one rejection and the run shows the error message
allSettled_RejectsTogether(l) ==
    /\ app.loads[l].pc = "waiting"
    /\ \A i \in 1..2 : calls[SlotOf(l, i)].pc = "done"
    /\ app' = [app EXCEPT
                  !.loads[l].pc = "done",
                  !.serversGrid =
                      IF \E i \in 1..2 : calls[SlotOf(l, i)].result.kind = "throw"
                      THEN <<>>
                      ELSE <<Card("1", calls[SlotOf(l, 1)].result),
                             Card("2", calls[SlotOf(l, 2)].result)>>,
                  !.allPlayers = PlayersOf("1") \o PlayersOf("2")]
    /\ UNCHANGED <<cache, now, calls, started, lastDone, legacy>>

\* the statuses handed to renderServerCard are put in the cache
allSettled_CachesRendered(l) ==
    /\ app.loads[l].pc = "waiting"
    /\ \A i \in 1..2 : calls[SlotOf(l, i)].pc = "done"
    /\ app' = [app EXCEPT
                  !.loads[l].pc = "done",
                  !.serversGrid = <<Card("1", calls[SlotOf(l, 1)].result),
                                    Card("2", calls[SlotOf(l, 2)].result)>>,
                  !.allPlayers = PlayersOf("1") \o PlayersOf("2")]
    /\ cache' = [a \in servers |->
                    IF cache[a] = Undefined THEN Undefined
                    ELSE [cache[a] EXCEPT !.data =
                             IF a = Address("1") THEN Card("1", calls[SlotOf(l, 1)].result).status
                             ELSE Card("2", calls[SlotOf(l, 2)].result).status]]
    /\ UNCHANGED <<now, calls, started, lastDone, legacy>>

\* lines 423-453: Promise.allSettled has resolved: the grid is emptied, a
\* card is rendered for each server, and updatePlayersList reads the cache
allSettled(l) ==
    /\ app.loads[l].pc = "waiting"
    /\ \A i \in 1..2 : calls[SlotOf(l, i)].pc = "done"
    /\ app' = [app EXCEPT
                  !.loads[l].pc = "done",
                  !.serversGrid = <<Card("1", calls[SlotOf(l, 1)].result),
                                    Card("2", calls[SlotOf(l, 2)].result)>>,
                  !.allPlayers = PlayersOf("1") \o PlayersOf("2")]
    /\ UNCHANGED <<cache, now, calls, started, lastDone, legacy>>

\* time passes, from DOMContentLoaded on, up to the next instant of interest
TickTo(t) ==
    /\ app.initialized
    /\ t > now
    /\ Tick(t - now)

InitApp ==
    /\ cache = [a \in servers |-> Undefined]
    /\ now = 0
    /\ calls = [c \in AppCalls |-> Idle]
    /\ started = 0
    /\ lastDone = [a \in servers |-> Undefined]
    /\ legacy = NotCalled
    /\ app = NotLoaded

NextApp ==
    \/ \E l \in Loads : init(l)
    \/ \E l \in Loads : intervalFires(l)
    \/ \E l \in Loads : visibilitychange(l)
    \/ \E c \in AppCalls, o \in AppNewApi : newApiResponds(c, o)
    \/ \E c \in AppCalls, o \in AppOldApi : oldApiResponds(c, o)
    \/ \E c \in AppCalls, o \in AppOldApi : fallbackResponds(c, o)
    \/ \E l \in Loads : allSettled(l)
    \/ \E t \in Instants : TickTo(t)

\* the page: DOMContentLoaded, then timer ticks and visibility events
SpecApp == InitApp /\ [][NextApp]_vars

---------------------------------------------------------------------------
(* MinecraftStatusApp: checkCustomServer and what triggers it *)

\* lines 650-701 and 703-715: what #customResult shows for a settled invocation
ResultHTML(settled) ==
    IF settled.result = Throw
    THEN [class |-> "error", title |-> "failed", status |-> Undefined]
    ELSE IF Truthy(Get(settled.result.value, "online"))
    THEN [class |-> "success", title |-> "online", status |-> settled.result.value]
    ELSE [class |-> "error", title |-> "offline", status |-> Undefined]

\* lines 647-720: the await of the k-th check has settled; the result is
\* shown and the finally block puts back what the check read from the button
checkSettled(k) ==
    /\ app.checks[k].pc = "waiting"
    /\ calls[k].pc = "done"
    /\ app' = [app EXCEPT !.customResult = ResultHTML(calls[k]),
                          !.checkBtn = [innerHTML |-> app.checks[k].originalText,
                                        disabled  |-> FALSE],
                          !.checks[k].pc = "done"]
    /\ UNCHANGED <<cache, now, calls, started, lastDone, legacy>>

\* lines 628-648: checkCustomServer() up to its await; an empty address
\* returns before the button is touched
checkCustomServer(k, serverAddress, by) ==
    /\ app.checks[k].pc = "idle"
    /\ \A j \in 1..(k - 1) : app.checks[j].pc # "idle"
    /\ serverAddress # ""
    /\ LET entered == Entered(serverAddress, started + 1)
       IN /\ calls' = [calls EXCEPT ![k] = entered]
          /\ lastDone' = IF entered.pc = "done"
                         THEN [lastDone EXCEPT ![serverAddress] = entered]
                         ELSE lastDone
    /\ started' = started + 1
    /\ app' = [app EXCEPT !.checkBtn = [innerHTML |-> CheckingLabel, disabled |-> TRUE],
                          !.checks[k] = [pc |-> "waiting", by |-> by,
                                         originalText |-> app.checkBtn.innerHTML]]
    /\ UNCHANGED <<cache, now, legacy>>

\* line 395: a click on #checkCustom; a disabled button dispatches no click
click(k, serverAddress) ==
    /\ ~app.checkBtn.disabled
    /\ checkCustomServer(k, serverAddress, "click")

\* lines 396-400: a key pressed in #customServer; only Enter asks for a check,
\* and the listener does not look at the button
keypress(k, key, serverAddress) ==
    /\ key = "Enter"
    /\ checkCustomServer(k, serverAddress, key)

\* the page with its listeners attached (line 372) and nothing cached
InitCustom ==
    /\ cache = [a \in servers |-> Undefined]
    /\ now = 0
    /\ calls = [c \in Checks |-> Idle]
    /\ started = 0
    /\ lastDone = [a \in servers |-> Undefined]
    /\ legacy = NotCalled
    /\ app = NotLoaded

NextCustom ==
    \/ \E k \in Checks, a \in CustomInputs : click(k, a)
    \/ \E k \in Checks, key \in Keys, a \in CustomInputs : keypress(k, key, a)
    \/ \E c \in Checks, o \in AppNewApi : newApiResponds(c, o)
    \/ \E c \in Checks, o \in AppOldApi : oldApiResponds(c, o)
    \/ \E c \in Checks, o \in AppOldApi : fallbackResponds(c, o)
    \/ \E k \in Checks : checkSettled(k)

\* the custom check: clicks on the button and Enter in the address field
SpecCustom == InitCustom /\ [][NextCustom]_vars

---------------------------------------------------------------------------
(* Steps of an invocation *)

\* the invocation in slot c starts in this step
Starts(c) == started' = started + 1 /\ calls'[c].id = started'

\* the invocation in slot c settles in this step
Settles(c) == calls'[c].pc = "done" /\ (calls[c].pc # "done" \/ calls[c].id # calls'[c].id)

\* the refresh of the invocation in slot c fails in this step
RefreshFails(c) == Settles(c) /\ calls[c].pc = "fallback" /\ calls'[c].freshData = Undefined

\* the refresh of the invocation in slot c succeeds in this step
RefreshSucceeds(c) == Settles(c) /\ calls'[c].freshData # Undefined

\* the old-API request gave no body to work with: network error, non-2xx,
\* unparseable body, or a body that is not an object
NoBody(outcome) == outcome \in Failures \/ outcome = Ok(JNull)

\* the new-API request returned 2xx, parsed to an object, code === 200, online defined
Usable(outcome) ==
    /\ outcome.kind = "ok"
    /\ outcome.body.t = "object"
    /\ Get(outcome.body, "code") = Num(200)
    /\ Get(outcome.body, "online") # Undefined

---------------------------------------------------------------------------
(* C1..C6: the cache *)

\* C1: getServerStatus(A) answers from the cache, with no upstream request,
\* iff A has an entry and now - timestamp < 30000; the answer is then the
\* entry's data with fromCache = true and error = false; otherwise a refresh
\* is started.
C1_HitIffFreshWithErrorFalse ==
    [][\A c \in Calls : Starts(c) =>
          LET entry == cache[calls'[c].serverAddress]
              fresh == entry # Undefined /\ now - entry.timestamp < 30000
          IN /\ fresh <=> (calls'[c].pc = "done" /\ calls'[c].requests = 0)
             /\ fresh => calls'[c].result =
                             Return(Spread(entry.data, [fromCache |-> Bool(TRUE),
                                                        error |-> Bool(FALSE)]))
             /\ ~fresh => (calls'[c].pc = "newApi" /\ calls'[c].requests = 1)]_vars

\* C2 as stated: two invocations for one address, the second starting after
\* the first has settled and within 30000 ms of it, issue at most one upstream
\* request in total, and the second returns fromCache = true with the data
\* the first one returned.
C2_TwiceOneRoundTrip ==
    [][\A c \in Calls : Settles(c) =>
          LET second == calls'[c]
              first == lastDone[second.serverAddress]
          IN (first # Undefined /\ first.id < second.id /\ second.now - first.now < 30000) =>
                /\ first.requests + second.requests <= 1
                /\ second.result.kind = "return"
                /\ first.result.kind = "return"
                /\ second.result.value =
                      Spread(first.result.value, [fromCache |-> Bool(TRUE)])]_vars

\* C2 amended: when the invocation that settled last for an address refreshed
\* successfully, an invocation for that address starting less than 30000 ms
\* after the start of that one issues no upstream request and returns the
\* same data with fromCache = true; the refresh itself took one or two
\* upstream requests.
C2_SecondCallServedFromCache ==
    [][\A c \in Calls : Starts(c) =>
          LET second == calls'[c]
              first == lastDone[second.serverAddress]
          IN (first # Undefined /\ first.freshData # Undefined /\ now - first.now < 30000) =>
                /\ second.pc = "done"
                /\ second.requests = 0
                /\ first.requests \in {1, 2}
                /\ second.result = Return(Spread(first.freshData, [fromCache |-> Bool(TRUE)]))
                /\ second.result.value =
                      Spread(first.result.value, [fromCache |-> Bool(TRUE)])]_vars

\* a second invocation was served from the cache after a successful refresh
C2_Witness ==
    \E c \in Calls, a \in servers :
        /\ calls[c].pc = "done" /\ calls[c].serverAddress = a
        /\ calls[c].requests = 0 /\ calls[c].id > 1
        /\ cache[a] # Undefined /\ calls[c].cached = cache[a]
        /\ calls[c].now > cache[a].timestamp

\* C3: an invocation throws only if its refresh failed and the cache holds
\* no entry for its address at the moment it throws.
C3_ThrowsOnlyWithoutEntry ==
    [][\A c \in Calls : (Settles(c) /\ calls'[c].result = Throw) =>
          /\ RefreshFails(c)
          /\ cache[calls'[c].serverAddress] = Undefined
          /\ cache'[calls'[c].serverAddress] = Undefined]_vars

\* C4: when the refresh fails and the address had an entry before the call
\* (of an age of 30000 ms or more), the call returns that entry's data with
\* fromCache = true and error = true and leaves the cache unchanged.
C4_StaleOnFailure ==
    [][\A c \in Calls : (RefreshFails(c) /\ calls[c].cached # Undefined) =>
          /\ calls[c].now - calls[c].cached.timestamp >= 30000
          /\ calls'[c].result.kind = "return"
          /\ calls'[c].result.value =
                Spread(calls[c].cached.data, [fromCache |-> Bool(TRUE), error |-> Bool(TRUE)])
          /\ Get(calls'[c].result.value, "fromCache") = Bool(TRUE)
          /\ Get(calls'[c].result.value, "error") = Bool(TRUE)
          /\ cache' = cache]_vars

\* a call answered with stale data after a failed refresh
C4_Witness ==
    \E c \in Calls :
        /\ calls[c].pc = "done" /\ calls[c].path = "fallback"
        /\ calls[c].oldApi = StatusError
        /\ calls[c].cached # Undefined
        /\ calls[c].result.kind = "return"

\* C5: when both upstream requests fail and the address has no entry, the
\* call throws and the cache still has no entry for the address.
C5_ThrowsWithoutEntry ==
    [][\A c \in Calls : (RefreshFails(c) /\ cache[calls[c].serverAddress] = Undefined) =>
          /\ ~Usable(calls'[c].newApi)
          /\ NoBody(calls'[c].oldApi)
          /\ calls'[c].result = Throw
          /\ cache'[calls[c].serverAddress] = Undefined
          /\ cache' = cache]_vars

\* a call threw after an invalid new-API body and an unparseable old-API
\* body, and the cache has no entry for its address
C5_Witness ==
    \E c \in Calls :
        /\ calls[c].pc = "done" /\ calls[c].result = Throw
        /\ calls[c].newApi = Ok(NewNoOnline)
        /\ calls[c].oldApi = SyntaxError
        /\ cache[calls[c].serverAddress] = Undefined

\* C6: a successful refresh stores {data: freshData, timestamp} under the
\* address, creating or replacing the entry, and returns freshData with
\* fromCache = false.
C6_SuccessStoresAndReturns ==
    [][\A c \in Calls : RefreshSucceeds(c) =>
          LET a == calls'[c].serverAddress
              freshData == calls'[c].freshData
          IN /\ cache'[a] # Undefined
             /\ cache'[a].data = freshData
             /\ "fromCache" \notin DOMAIN cache'[a].data.o
             /\ \A b \in servers \ {a} : cache'[b] = cache[b]
             /\ calls'[c].result.kind = "return"
             /\ Get(calls'[c].result.value, "fromCache") = Bool(FALSE)
             /\ \A k \in DOMAIN freshData.o :
                    Get(calls'[c].result.value, k) = freshData.o[k]]_vars

\* a successful refresh replaced an older entry
C6_Witness ==
    \E c \in Calls :
        /\ calls[c].pc = "done" /\ calls[c].freshData # Undefined
        /\ calls[c].cached # Undefined
        /\ cache[calls[c].serverAddress].data = calls[c].freshData

---------------------------------------------------------------------------
(* C7..C10: the refresh *)

\* C7: the response of the new API is the primary side of the merge iff the
\* request returned 2xx, parsed, has code === 200 and online defined; all other
\* outcomes are handled alike: two refreshes whose new-API outcomes are both
\* unusable and whose old-API outcomes agree give the same data or both fail,
\* and with the same cache snapshot they settle alike.
C7_UnusableOutcomesAlike ==
    \A c, d \in Calls :
        LET p == calls[c]
            q == calls[d]
        IN /\ p.path # "" => (p.path = "merge" <=> Usable(p.newApi))
           /\ (p.pc = "done" /\ q.pc = "done" /\ p.path # "" /\ q.path # ""
                  /\ ~Usable(p.newApi) /\ ~Usable(q.newApi) /\ p.oldApi = q.oldApi) =>
                 /\ p.path = "fallback" /\ q.path = "fallback"
                 /\ p.freshData = q.freshData
                 /\ p.requests = q.requests
                 /\ (p.cached = q.cached => p.result = q.result)

\* two refreshes with different unusable new-API outcomes and the same
\* successful old-API outcome have both settled
C7_Witness ==
    \E c, d \in Calls :
        /\ calls[c].pc = "done" /\ calls[d].pc = "done"
        /\ calls[c].newApi = NetworkError /\ calls[d].newApi = Ok(NewBadCode)
        /\ calls[c].oldApi = Ok(OldFull) /\ calls[d].oldApi = Ok(OldFull)
        /\ calls[c].freshData # Undefined /\ calls[d].freshData = calls[c].freshData

\* C8: with a valid response of the new API, the old API is queried iff
\* online is true; a failure of that query (network error, non-2xx,
\* unparseable body) leaves the refresh successful, the status built from the
\* new-API data with the defaults for the fields only the old API has.
C8_SupplementOptional ==
    \A c \in Calls :
        LET q == calls[c]
            fresh == q.freshData
        IN q.path = "merge" =>
              /\ (q.pc = "oldApi" \/ q.oldApi # Undefined)
                    <=> Get(q.newApiData, "online") = Bool(TRUE)
              /\ (q.pc = "oldApi" \/ q.oldApi # Undefined) <=> q.requests = 2
              /\ (q.pc = "done" /\ q.oldApi # Undefined /\ NoBody(q.oldApi)) =>
                    /\ fresh # Undefined
                    /\ q.result = Return(Spread(fresh, [fromCache |-> Bool(FALSE)]))
                    /\ Get(fresh, "online") = Bool(TRUE)
                    /\ Get(fresh, "version") = Or(Get(q.newApiData, "version"), Unknown)
                    /\ Get(Get(fresh, "players"), "online") = Or(Get(q.newApiData, "players"), Num(0))
                    /\ Get(Get(fresh, "players"), "list") = Arr(<<>>)
                    /\ Get(Get(fresh, "motd"), "raw") = Arr(<<>>)
                    /\ Get(fresh, "icon") = Or(Get(q.newApiData, "favicon_url"), JNull)
                    /\ Get(fresh, "protocol") = Unknown
                    /\ Get(fresh, "software") = Unknown
                    /\ Get(fresh, "gamemode") = Str("survival")
                    /\ Get(fresh, "map") = Unknown
                    /\ Get(fresh, "plugins") = Arr(<<>>)

\* a refresh succeeded although its supplementary request failed
C8_Witness ==
    \E c \in Calls :
        /\ calls[c].pc = "done" /\ calls[c].path = "merge"
        /\ calls[c].oldApi = SyntaxError
        /\ calls[c].freshData # Undefined

\* C9: with an invalid or missing response of the new API the old API is
\* queried; if that query fails the refresh fails and the cache is not
\* written; if it succeeds the refresh succeeds with a status built from the
\* old-API body alone.
C9_FallbackToOldApi ==
    [][\A c \in Calls :
          /\ (calls[c].pc = "newApi" /\ calls'[c].pc # "newApi" /\ ~Usable(calls'[c].newApi)) =>
                (calls'[c].pc = "fallback" /\ calls'[c].requests = 2)
          /\ (Settles(c) /\ calls[c].pc = "fallback") =>
                LET q == calls'[c]
                IN IF NoBody(q.oldApi)
                   THEN /\ q.freshData = Undefined
                        /\ cache' = cache
                        /\ (q.result = Throw \/ Get(q.result.value, "error") = Bool(TRUE))
                   ELSE /\ q.freshData =
                              processServerData(convertOldApiToNewApiFormat(q.oldApi.body),
                                                q.oldApi.body)
                        /\ Get(q.freshData, "version") = Or(Get(q.oldApi.body, "version"), Unknown)
                        /\ Get(q.freshData, "ip") = Or(Get(q.oldApi.body, "ip"), Unknown)
                        /\ q.result = Return(Spread(q.freshData, [fromCache |-> Bool(FALSE)]))
                        /\ cache'[q.serverAddress] = [data |-> q.freshData, timestamp |-> q.now]]_vars

\* a fallback refresh succeeded after the new API answered with an invalid body
C9_Witness ==
    \E c \in Calls :
        /\ calls[c].pc = "done" /\ calls[c].path = "fallback"
        /\ calls[c].newApi = Ok(NewNoOnline)
        /\ calls[c].oldApi = Ok(OldFull)
        /\ calls[c].freshData # Undefined

\* C10: in the fallback path the merged online, players.online and
\* players.max are those of the old-API response, false / 0 / 0 where the
\* response omits them.
C10_FallbackCounts ==
    \A c \in Calls :
        LET q == calls[c]
            body == q.oldApi.body
            players == Get(body, "players")
        IN (q.pc = "done" /\ q.path = "fallback" /\ q.freshData # Undefined) =>
              /\ Get(q.freshData, "online") =
                    (IF Get(body, "online") = Undefined THEN Bool(FALSE) ELSE Get(body, "online"))
              /\ Get(Get(q.freshData, "players"), "online") =
                    (IF Get(players, "online") = Undefined THEN Num(0) ELSE Get(players, "online"))
              /\ Get(Get(q.freshData, "players"), "max") =
                    (IF Get(players, "max") = Undefined THEN Num(0) ELSE Get(players, "max"))

---------------------------------------------------------------------------
(* C11..C17: the merge *)

\* the refresh of q has run the merge
Merged(q) == q.pc = "done" /\ q.freshData # Undefined

\* the first argument of the merge: the response of the new API, or the
\* record converted from the response of the old API
PrimarySide(q) ==
    IF q.path = "merge" THEN q.newApiData ELSE convertOldApiToNewApiFormat(q.oldApiData)

IsNum(v) == v.t = "number"

IsBool(v) == v.t = "boolean"

IsStr(v) == v.t = "string"

\* what the claimed rule gives for a player count: the primary number if
\* there is one, else the legacy number if there is one, else 0
ClaimedCount(primary, fromOld) ==
    IF IsNum(primary) THEN primary ELSE IF IsNum(fromOld) THEN fromOld ELSE Num(0)

\* C11: players.online and players.max of the merge are the primary's
\* numbers whenever the primary has them (0 included), the legacy numbers
\* only when the primary has none, and 0 when neither side has one.
C11_PrimaryCountsWin ==
    \A c \in Calls :
        LET q == calls[c]
            old == Get(q.oldApiData, "players")
            players == Get(q.freshData, "players")
        IN Merged(q) =>
              /\ Get(players, "online") =
                    ClaimedCount(Get(PrimarySide(q), "players"), Get(old, "online"))
              /\ Get(players, "max") =
                    ClaimedCount(Get(PrimarySide(q), "max_players"), Get(old, "max"))

\* C12: online of the merge is the primary's boolean if it has one, else
\* the legacy boolean if there is one, else false; when the new API was
\* unusable, it is the legacy boolean if there is one, else false.
C12_OnlineFlag ==
    \A c \in Calls :
        LET q == calls[c]
            primary == Get(PrimarySide(q), "online")
            fromOld == Get(q.oldApiData, "online")
            legacyOrFalse == IF IsBool(fromOld) THEN fromOld ELSE Bool(FALSE)
        IN Merged(q) =>
              /\ Get(q.freshData, "online") =
                    (IF IsBool(primary) THEN primary ELSE legacyOrFalse)
              /\ q.path = "fallback" => Get(q.freshData, "online") = legacyOrFalse

\* a merge on a valid response whose online is null gave false, and a
\* merge after an unusable response gave the legacy true
C12_Witness ==
    \E c, d \in Calls :
        /\ Merged(calls[c]) /\ calls[c].newApi = Ok(NewOnlineNull)
        /\ Get(calls[c].freshData, "online") = Bool(FALSE)
        /\ Merged(calls[d]) /\ calls[d].path = "fallback" /\ calls[d].oldApi = Ok(OldFull)
        /\ Get(calls[d].freshData, "online") = Bool(TRUE)

\* C13: players.list of the merge is the legacy list when the old API gave
\* one and the empty sequence otherwise, whatever the new API answered; with
\* {code:200, online:true} and the list ["Alice","Bob"] the merge has that
\* list and online = true.
C13_ListFromOldApi ==
    \A c \in Calls :
        LET q == calls[c]
            list == Get(Get(q.oldApiData, "players"), "list")
        IN Merged(q) =>
              /\ Get(Get(q.freshData, "players"), "list") =
                    (IF list.t = "array" THEN list ELSE Arr(<<>>))
              /\ (q.newApi = Ok(NewOnlineBare) /\ q.oldApi = Ok(OldFull)) =>
                    /\ Get(Get(q.freshData, "players"), "list") = Arr(<<Str("Alice"), Str("Bob")>>)
                    /\ Get(q.freshData, "online") = Bool(TRUE)

\* the merge of {code:200, online:true} with the list ["Alice","Bob"]
C13_Witness ==
    \E c \in Calls :
        /\ Merged(calls[c])
        /\ calls[c].newApi = Ok(NewOnlineBare) /\ calls[c].oldApi = Ok(OldFull)
        /\ Length(Get(Get(calls[c].freshData, "players"), "list")) = 2

\* the keys of the canonical record
StatusKeys ==
    {"online", "ip", "port", "hostname", "icon", "version", "protocol", "protocolName",
     "players", "motd", "debug", "software", "gamemode", "map", "plugins", "fromCache", "error"}

\* C14: every status getServerStatus returns has every field of the
\* canonical record, none undefined, fromCache and error booleans,
\* players.online and players.max numbers.
C14_EveryFieldPopulated ==
    \A c \in Calls :
        LET q == calls[c]
            status == q.result.value
        IN (q.pc = "done" /\ q.result.kind = "return") =>
              /\ \A k \in StatusKeys : Get(status, k) # Undefined
              /\ \A k \in {"online", "max", "list"} : Get(Get(status, "players"), k) # Undefined
              /\ \A k \in {"raw", "clean", "html"} : Get(Get(status, "motd"), k) # Undefined
              /\ \A k \in {"ping", "query", "cacheHit"} : Get(Get(status, "debug"), k) # Undefined
              /\ IsBool(Get(status, "fromCache"))
              /\ IsBool(Get(status, "error"))
              /\ IsNum(Get(Get(status, "players"), "online"))
              /\ IsNum(Get(Get(status, "players"), "max"))

\* C15: icon of the merge is the legacy icon when the old API gave one,
\* else favicon_url of the primary when present, else null.
C15_IconPreference ==
    \A c \in Calls :
        LET q == calls[c]
            fromOld == Get(q.oldApiData, "icon")
            primary == Get(PrimarySide(q), "favicon_url")
        IN Merged(q) =>
              Get(q.freshData, "icon") =
                 (IF IsStr(fromOld) /\ fromOld # Str("") THEN fromOld
                  ELSE IF IsStr(primary) /\ primary # Str("") THEN primary ELSE JNull)

\* both sides had an icon and the merge has the one of the old API
C15_Witness ==
    \E c \in Calls :
        /\ Merged(calls[c])
        /\ calls[c].newApi = Ok(NewOnlineFull) /\ calls[c].oldApi = Ok(OldFull)
        /\ Get(calls[c].freshData, "icon") = Str("data:old")

\* the first line of the legacy motd array k, if the old API gave one
LegacyFirstLine(q, k) ==
    LET lines == Get(Get(q.oldApiData, "motd"), k)
    IN IF lines.t = "array" /\ Length(lines) >= 1 THEN First(lines) ELSE Undefined

\* C16 as stated: motd.clean and motd.html are one string each, the flat
\* string of the primary if it has one, else the first line of the legacy
\* array, else ""; motd.raw is the legacy raw array or empty.
C16_MotdPrimaryIfPresent ==
    \A c \in Calls :
        LET q == calls[c]
            motd == Get(q.freshData, "motd")
            One(flat, first) == IF IsStr(flat) THEN flat
                                ELSE IF IsStr(first) THEN first ELSE Str("")
        IN Merged(q) =>
              /\ Get(motd, "clean") =
                    Arr(<<One(Get(PrimarySide(q), "motd_clean"), LegacyFirstLine(q, "clean"))>>)
              /\ Get(motd, "html") =
                    Arr(<<One(Get(PrimarySide(q), "motd_html"), LegacyFirstLine(q, "html"))>>)

\* C16 amended: motd.clean and motd.html are one string each, the flat
\* string of the primary if it has a non-empty one, else the first line of
\* the legacy array, else ""; motd.raw is the legacy raw array or empty.
C16_MotdPrimaryIfNonEmpty ==
    \A c \in Calls :
        LET q == calls[c]
            motd == Get(q.freshData, "motd")
            raw == Get(Get(q.oldApiData, "motd"), "raw")
            One(flat, first) == IF IsStr(flat) /\ flat # Str("") THEN flat
                                ELSE IF IsStr(first) THEN first ELSE Str("")
        IN Merged(q) =>
              /\ Get(motd, "clean") =
                    Arr(<<One(Get(PrimarySide(q), "motd_clean"), LegacyFirstLine(q, "clean"))>>)
              /\ Get(motd, "html") =
                    Arr(<<One(Get(PrimarySide(q), "motd_html"), LegacyFirstLine(q, "html"))>>)
              /\ Get(motd, "raw") = (IF raw.t = "array" THEN raw ELSE Arr(<<>>))

\* the new API gave empty motd strings and the merge has the first legacy line
C16_Witness ==
    \E c \in Calls :
        /\ Merged(calls[c])
        /\ calls[c].newApi = Ok(NewBlankMotd) /\ calls[c].oldApi = Ok(OldFull)
        /\ Get(Get(calls[c].freshData, "motd"), "clean") = Arr(<<Str("Hello")>>)
        /\ Get(Get(calls[c].freshData, "motd"), "html") = Arr(<<Str("<i>Hello</i>")>>)

\* C17: debug.ping of every merge is null, on the primary path and on the
\* fallback path, online or offline, whatever the responses contain.
C17_PingAlwaysNull ==
    \A c \in Calls :
        Merged(calls[c]) => Get(Get(calls[c].freshData, "debug"), "ping") = JNull

\* a merge on each path with an old-API body that has debug.ping
C17_Witness ==
    \E c, d \in Calls :
        /\ Merged(calls[c]) /\ calls[c].path = "merge" /\ calls[c].oldApi = Ok(OldFull)
        /\ Merged(calls[d]) /\ calls[d].path = "fallback" /\ calls[d].oldApi = Ok(OldFull)
        /\ Get(Get(calls[c].freshData, "debug"), "ping") = JNull

---------------------------------------------------------------------------
(* C18..C20: src/script.js *)

\* the normalizer has run on legacy.arg
Normalized == legacy.op = "processServerData" /\ legacy.done

\* renderMOTD has run on the array legacy.arg
Rendered == legacy.op = "renderMOTD" /\ legacy.done /\ legacy.arg.t = "array"

RECURSIVE SplitBr(_)
SplitBr(markup) ==
    IF \A i \in 1..Len(markup) : markup[i] # Br THEN <<markup>>
    ELSE LET i == CHOOSE i \in 1..Len(markup) :
                     markup[i] = Br /\ \A j \in 1..(i - 1) : markup[j] # Br
         IN <<SubSeq(markup, 1, i - 1)>> \o SplitBr(SubSeq(markup, i + 1, Len(markup)))

\* the number of opening and of closing span tags among the first n tokens
Opens(markup, n) == Cardinality({i \in 1..n : IsOpenTag(markup[i])})

Closes(markup, n) == Cardinality({i \in 1..n : markup[i] = CloseSpan})

\* the span markup of one output line is balanced
Balanced(markup) ==
    /\ markup # <<>>
    /\ IsOpenTag(markup[1])
    /\ markup[Len(markup)] = CloseSpan
    /\ Opens(markup, Len(markup)) = Closes(markup, Len(markup))
    /\ \A i \in 1..Len(markup) :
          markup[i] = CloseSpan => Opens(markup, i - 1) > Closes(markup, i - 1)

\* C19: for lines of plain text, colour markers and reset markers, the
\* output of renderMOTD has one piece per line, the pieces are joined with
\* <br>, and every piece starts with an opening span, ends with a closing
\* span, has as many opening as closing spans and closes no span that is
\* not open.
C19_BalancedSpans ==
    Rendered =>
        IF legacy.arg.a = <<>> THEN legacy.out = <<>>
        ELSE LET pieces == SplitBr(legacy.out)
             IN /\ Len(pieces) = Len(legacy.arg.a)
                /\ \A i \in 1..Len(pieces) : Balanced(pieces[i])

\* two lines were rendered, the first "&aHello&r World"
C19_Witness ==
    /\ Rendered
    /\ legacy.arg = Arr(<<HelloWorld, <<"x", Sigil, "k">> >>)
    /\ Len(SplitBr(legacy.out)) = 2

\* the markup the claimed rule gives for the markers of a line: a colour
\* marker closes the span and opens one of its colour, a reset marker
\* closes the span and opens a plain one
RECURSIVE ClaimedMarkup(_)
ClaimedMarkup(line) ==
    IF line = <<>> THEN <<>>
    ELSE IF Len(line) >= 2 /\ line[1] = Sigil /\ line[2] = "r"
         THEN <<CloseSpan, OpenSpan>> \o ClaimedMarkup(SubSeq(line, 3, Len(line)))
    ELSE IF Len(line) >= 2 /\ line[1] = Sigil /\ line[2] \in ColorCodes
         THEN <<CloseSpan, OpenColor(line[2])>> \o ClaimedMarkup(SubSeq(line, 3, Len(line)))
    ELSE <<line[1]>> \o ClaimedMarkup(Tail(line))

\* C20: in the output of renderMOTD every colour marker closes the
\* previous span and opens a span of its colour class, and every reset
\* marker closes the current span and opens a plain span without a class.
C20_ResetOpensPlainSpan ==
    (Rendered /\ legacy.arg.a # <<>>) =>
        LET pieces == SplitBr(legacy.out)
        IN \A i \in 1..Len(legacy.arg.a) :
              pieces[i] = <<OpenSpan>> \o ClaimedMarkup(legacy.arg.a[i]) \o <<CloseSpan>>

---------------------------------------------------------------------------
(* C22..C30: overlapping invocations *)

\* the {data, timestamp} pair the refresh of q writes
Written(q) == [data |-> q.freshData, timestamp |-> q.now]

\* q is a completed successful refresh of address a
RefreshedBy(q, a) == q.pc = "done" /\ q.serverAddress = a /\ q.freshData # Undefined

\* C22: under every interleaving of invocations for the same or different
\* addresses, the entry of an address is always the whole {data, timestamp}
\* pair written by one completed successful refresh of that address, every
\* successful refresh writes its own pair over whatever is there, and when
\* the invocation that completed last for the address refreshed
\* successfully the entry is its pair.
C22_EntryIsOneRefresh ==
    /\ [](\A a \in servers :
            /\ cache[a] # Undefined =>
                  \E c \in DOMAIN calls : RefreshedBy(calls[c], a) /\ cache[a] = Written(calls[c])
            /\ (lastDone[a] # Undefined /\ lastDone[a].freshData # Undefined) =>
                  cache[a] = Written(lastDone[a]))
    /\ [][\A c \in DOMAIN calls : RefreshSucceeds(c) =>
              cache'[calls'[c].serverAddress] = Written(calls'[c])]_vars

\* two refreshes of one address overlapped, the one that started later
\* completed first, and the entry is the pair of the one that completed last
C22_Witness ==
    \E c, d \in DOMAIN calls :
        /\ RefreshedBy(calls[c], calls[d].serverAddress)
        /\ RefreshedBy(calls[d], calls[c].serverAddress)
        /\ calls[c].id < calls[d].id
        /\ calls[d].cached = Undefined
        /\ calls[c].now < calls[d].now
        /\ lastDone[calls[c].serverAddress] = calls[c]
        /\ cache[calls[c].serverAddress] = Written(calls[c])

\* C23: an invocation that starts while the cache has no fresh entry for
\* its address starts its own upstream request, also while another
\* invocation for the same address is in flight, and each of them writes
\* the cache when its refresh succeeds.
C23_NoSingleFlight ==
    [][\A c \in DOMAIN calls :
          /\ Starts(c) =>
                LET entry == cache[calls'[c].serverAddress]
                    fresh == entry # Undefined /\ now - entry.timestamp < cacheTimeout
                IN ~fresh => (calls'[c].pc = "newApi" /\ calls'[c].requests = 1)
          /\ RefreshSucceeds(c) =>
                /\ calls'[c].requests \in {1, 2}
                /\ cache'[calls'[c].serverAddress] # cache[calls'[c].serverAddress]
                      \/ cache[calls'[c].serverAddress] = Written(calls'[c])
                /\ cache'[calls'[c].serverAddress].data = calls'[c].freshData]_vars

\* two invocations for one address both started before either completed,
\* each sent its own requests and each refreshed successfully
C23_Witness ==
    \E c, d \in DOMAIN calls :
        /\ c # d
        /\ RefreshedBy(calls[c], calls[d].serverAddress)
        /\ RefreshedBy(calls[d], calls[c].serverAddress)
        /\ calls[c].cached = Undefined /\ calls[d].cached = Undefined
        /\ calls[c].requests >= 1 /\ calls[d].requests >= 1

\* C24: every upstream request is given up after a bounded wait, so every
\* invocation that waits for an upstream response eventually returns or
\* throws, also when the API never responds.
C24_EveryCallSettles ==
    \A c \in Calls :
        (calls[c].pc \in {"newApi", "oldApi", "fallback"}) ~> (calls[c].pc = "done")

\* C26: an address has an entry iff a refresh of it has completed
\* successfully, and an entry that exists in a state exists in every later
\* state: no step removes one, only a successful refresh creates one.
C26_NeverEvicted ==
    /\ [](\A a \in servers :
            cache[a] # Undefined <=> \E c \in DOMAIN calls : RefreshedBy(calls[c], a))
    /\ [][\A a \in servers :
              /\ cache[a] # Undefined => cache'[a] # Undefined
              /\ (cache[a] = Undefined /\ cache'[a] # Undefined) =>
                    \E c \in DOMAIN calls :
                        RefreshSucceeds(c) /\ calls'[c].serverAddress = a]_vars

\* a refresh of an address failed after an entry for it was stored, and the
\* entry is still there
C26_Witness ==
    \E c \in DOMAIN calls :
        /\ calls[c].pc = "done" /\ calls[c].path = "fallback"
        /\ calls[c].freshData = Undefined
        /\ cache[calls[c].serverAddress] # Undefined

\* C28 as stated: the timestamp of the entry of an address never decreases.
C28_TimestampNeverDecreases ==
    [][\A a \in servers :
          cache[a] # Undefined =>
             (cache'[a] # Undefined /\ cache'[a].timestamp >= cache[a].timestamp)]_vars

\* C28 amended: a refresh that replaces the entry it read when it started
\* stores a timestamp at least 30000 ms greater than the one it replaces; a
\* refresh that started before the writer of the current entry and
\* completes after it stores its own, older start instant; no other step
\* changes a timestamp.
C28_TimestampOfWriter ==
    [][\A a \in servers :
          /\ \A c \in DOMAIN calls :
                (RefreshSucceeds(c) /\ calls'[c].serverAddress = a) =>
                   /\ cache'[a].timestamp = calls'[c].now
                   /\ (cache[a] # Undefined /\ calls'[c].cached = cache[a]) =>
                         cache'[a].timestamp >= cache[a].timestamp + cacheTimeout
          /\ (\A c \in DOMAIN calls : ~(RefreshSucceeds(c) /\ calls'[c].serverAddress = a)) =>
                cache'[a] = cache[a]]_vars

\* a refresh replaced the entry it had read at its start
C28_Witness ==
    \E c \in DOMAIN calls :
        /\ RefreshedBy(calls[c], calls[c].serverAddress)
        /\ calls[c].cached # Undefined
        /\ cache[calls[c].serverAddress] = Written(calls[c])
        /\ calls[c].cached.timestamp + cacheTimeout <= cache[calls[c].serverAddress].timestamp

\* C29: when the refresh of a call fails and the cache has an entry for its
\* address at that moment, the call returns the data of that current entry
\* (with fromCache = true and error = true), also when the entry was
\* created or replaced while the refresh was in flight.
C29_FallbackReadsCurrentEntry ==
    [][\A c \in DOMAIN calls :
          (RefreshFails(c) /\ cache[calls[c].serverAddress] # Undefined) =>
             calls'[c].result =
                Return(Spread(cache[calls[c].serverAddress].data,
                              [fromCache |-> Bool(TRUE), error |-> Bool(TRUE)]))]_vars

\* C30: the timestamp stored with an entry is the instant read at the start
\* of the call that wrote it, which is not later than the instant of the
\* write; a call served from the cache starts less than 30000 ms after the
\* start of the call that fetched the data it receives.
C30_StampedAtStart ==
    [][\A c \in DOMAIN calls :
          /\ RefreshSucceeds(c) =>
                /\ cache'[calls'[c].serverAddress].timestamp = calls'[c].now
                /\ calls'[c].now = calls[c].now
                /\ calls'[c].now <= now
          /\ (Starts(c) /\ calls'[c].pc = "done") =>
                \E d \in DOMAIN calls :
                    /\ RefreshedBy(calls[d], calls'[c].serverAddress)
                    /\ calls'[c].result =
                          Return(Spread(calls[d].freshData, [fromCache |-> Bool(TRUE)]))
                    /\ calls[d].now <= now
                    /\ now - calls[d].now < 30000]_vars

\* a call was served from the cache 29999 ms after the start of the call
\* that fetched the data, and that call took time to complete
C30_Witness ==
    \E c, d \in DOMAIN calls :
        /\ calls[c].pc = "done" /\ calls[c].requests = 0
        /\ RefreshedBy(calls[d], calls[c].serverAddress)
        /\ calls[c].cached = Written(calls[d])
        /\ calls[c].now - calls[d].now = cacheTimeout - 1

---------------------------------------------------------------------------
(* C21, C25, C27: the page *)

\* run l of loadServerStatus starts in this step
LoadStarts(l) == app.loads[l].pc = "idle" /\ app'.loads[l].pc = "waiting"

\* run l of loadServerStatus renders its cards in this step
LoadRenders(l) == app.loads[l].pc = "waiting" /\ app'.loads[l].pc = "done"

\* C21: a run of loadServerStatus issues the invocations for both servers
\* in one step; when both have settled it renders, for every combination of
\* outcomes, one card per server: from the server's own returned status if
\* its invocation returned, from the offline/error placeholder if it threw.
\* Rendering changes no invocation's result and no cache entry.
C21_SettledIndependently ==
    [][\A l \in Loads :
          /\ LoadStarts(l) =>
                \A i \in 1..2 : /\ calls'[SlotOf(l, i)].pc \in {"newApi", "done"}
                                 /\ calls'[SlotOf(l, i)].now = now
          /\ LoadRenders(l) =>
                /\ Len(app'.serversGrid) = 2
                /\ \A i \in 1..2 :
                      LET settled == calls[SlotOf(l, i)].result
                          card == app'.serversGrid[i]
                      IN /\ card.serverId = <<"1", "2">>[i]
                         /\ calls[SlotOf(l, i)].serverAddress = Address(card.serverId)
                         /\ settled.kind = "return" => card.status = settled.value
                         /\ settled.kind = "throw" =>
                               /\ card.status = Placeholder
                               /\ Get(card.status, "online") = Bool(FALSE)
                               /\ Get(card.status, "error") = Bool(TRUE)
                /\ calls' = calls
                /\ cache' = cache]_vars

\* the invocation for the first server threw and the one for the second
\* returned an online status: a placeholder and that status are rendered
C21_Witness ==
    \E l \in Loads :
        /\ app.loads[l].pc = "done"
        /\ calls[SlotOf(l, 1)].result = Throw
        /\ calls[SlotOf(l, 2)].result.kind = "return"
        /\ Len(app.serversGrid) = 2
        /\ app.serversGrid[1].status = Placeholder
        /\ app.serversGrid[2].status = calls[SlotOf(l, 2)].result.value
        /\ Get(app.serversGrid[2].status, "online") = Bool(TRUE)

\* C25 as stated: every tick of the timer and every visibility event
\* results in a live upstream refresh of both servers, none answered from
\* the cache.
C25_EveryTriggerRefreshesLive ==
    [][\A l \in Loads :
          (LoadStarts(l) /\ app'.loads[l].trigger \in {"interval", "visibilitychange"}) =>
             \A i \in 1..2 : /\ calls'[SlotOf(l, i)].pc = "newApi"
                              /\ calls'[SlotOf(l, i)].requests = 1]_vars

\* C25 amended: every tick of the timer and every visibility event calls
\* getServerStatus for both servers at that instant; a server is refreshed
\* live unless it has a cache entry younger than 30000 ms, and is then
\* answered from the cache with no upstream request.
C25_TriggerAsksBothServers ==
    [][\A l \in Loads :
          (LoadStarts(l) /\ app'.loads[l].trigger \in {"interval", "visibilitychange"}) =>
             \A i \in 1..2 :
                LET q == calls'[SlotOf(l, i)]
                    entry == cache[Address(<<"1", "2">>[i])]
                    fresh == entry # Undefined /\ now - entry.timestamp < 30000
                IN /\ q.serverAddress = Address(<<"1", "2">>[i])
                   /\ q.now = now
                   /\ fresh => /\ q.pc = "done" /\ q.requests = 0
                               /\ q.result = Return(Spread(entry.data, [fromCache |-> Bool(TRUE)]))
                   /\ ~fresh => (q.pc = "newApi" /\ q.requests = 1)]_vars

\* a visibility event refreshed the first server live and answered the
\* second from the cache
C25_Witness ==
    \E l \in Loads :
        /\ app.loads[l].trigger = "visibilitychange"
        /\ calls[SlotOf(l, 1)].requests >= 1
        /\ calls[SlotOf(l, 2)].pc = "done" /\ calls[SlotOf(l, 2)].requests = 0
        /\ calls[SlotOf(l, 2)].now > 0

\* C27: the entry of an address changes only in the step in which a refresh
\* of that address succeeds; a cache hit, a failed refresh, an invocation
\* for the other address, the start of loadServerStatus and its rendering
\* with updatePlayersList leave it as it is.
C27_OnlyRefreshWrites ==
    [][/\ \A a \in servers :
             cache'[a] # cache[a] =>
                \E c \in DOMAIN calls : /\ RefreshSucceeds(c)
                                         /\ calls'[c].serverAddress = a
                                         /\ cache'[a] = Written(calls'[c])
       /\ \A l \in Loads : (LoadStarts(l) \/ LoadRenders(l)) => cache' = cache
       /\ \A c \in DOMAIN calls : RefreshFails(c) => cache' = cache]_vars

\* a run whose invocation fell back to an expired entry has rendered, and
\* the entry is the one that invocation read when it started
C27_Witness ==
    \E l \in Loads, i \in 1..2 :
        LET q == calls[SlotOf(l, i)]
        IN /\ app.loads[l].pc = "done"
           /\ q.path = "fallback" /\ q.freshData = Undefined
           /\ q.cached # Undefined
           /\ cache[q.serverAddress] = q.cached
           /\ Get(app.serversGrid[i].status, "error") = Bool(TRUE)

---------------------------------------------------------------------------
(* C31, C32: what a refresh sends and what a call reports *)

\* the invocation in slot c is refreshing or has refreshed
Refreshing(q) == q.pc \in {"newApi", "oldApi", "fallback"} \/ (q.pc = "done" /\ q.path # "")

\* C31: a refresh sends the new-API request first and alone; the old-API
\* request (supplement or fallback) is sent at most once, in the step that
\* handles the new API's answer or failure and never before; a refresh sends
\* one or two requests in all, a cache hit none.
C31_PrimaryThenAtMostOneLegacy ==
    /\ [](\A c \in DOMAIN calls :
            LET q == calls[c]
            IN /\ q.requests \in 0..2
               /\ Refreshing(q) <=> q.requests >= 1
               /\ q.pc = "newApi" => (q.requests = 1 /\ q.newApi = Undefined
                                                     /\ q.oldApi = Undefined)
               /\ q.pc \in {"oldApi", "fallback"} =>
                     (q.requests = 2 /\ q.newApi # Undefined /\ q.oldApi = Undefined)
               /\ q.oldApi # Undefined => (q.requests = 2 /\ q.newApi # Undefined))
    /\ [][\A c \in DOMAIN calls :
             calls'[c].requests # calls[c].requests =>
                \/ Starts(c) /\ calls'[c].requests \in {0, 1} /\ calls'[c].newApi = Undefined
                \/ /\ calls[c].pc = "newApi" /\ calls[c].requests = 1
                   /\ calls'[c].requests = 2
                   /\ calls'[c].newApi # Undefined
                   /\ calls'[c].pc \in {"oldApi", "fallback"}]_vars

\* one refresh ended after the new-API request alone, another after a
\* failed new-API request and one old-API request
C31_Witness ==
    \E c, d \in DOMAIN calls :
        /\ calls[c].pc = "done" /\ calls[c].path = "merge" /\ calls[c].requests = 1
        /\ calls[d].pc = "done" /\ calls[d].path = "fallback" /\ calls[d].requests = 2
        /\ calls[d].newApi \in Failures /\ calls[d].oldApi # Undefined

\* C32: a returned status with fromCache = false comes from a call whose own
\* refresh succeeded, in the step of that success; a returned status with
\* error = true comes from a call whose own refresh failed, in the step of
\* that failure, and has fromCache = true; a cache hit never has
\* error = true; the data of a cache entry never has error = true.
C32_FlagsMatchTheCall ==
    /\ [](/\ \A c \in DOMAIN calls :
               LET q == calls[c]
               IN (q.pc = "done" /\ q.result.kind = "return") =>
                     LET v == q.result.value
                     IN /\ Get(v, "fromCache") \in {Bool(TRUE), Bool(FALSE)}
                        /\ Get(v, "fromCache") = Bool(FALSE) =>
                              (q.freshData # Undefined /\ q.requests >= 1
                                  /\ v = Spread(q.freshData, [fromCache |-> Bool(FALSE)]))
                        /\ Get(v, "error") = Bool(TRUE) =>
                              /\ q.freshData = Undefined
                              /\ q.path = "fallback" /\ q.requests = 2
                              /\ q.oldApi # Undefined
                              /\ Get(v, "fromCache") = Bool(TRUE)
                        /\ q.path = "" => Get(v, "error") # Bool(TRUE)
          /\ \A a \in servers :
                cache[a] # Undefined => Get(cache[a].data, "error") # Bool(TRUE))
    /\ [][\A c \in DOMAIN calls :
             (Settles(c) /\ calls'[c].result.kind = "return") =>
                LET v == calls'[c].result.value
                IN /\ Get(v, "fromCache") = Bool(FALSE) => RefreshSucceeds(c)
                   /\ Get(v, "error") = Bool(TRUE) => RefreshFails(c)]_vars

\* a call whose refresh failed has answered with the expired entry's data,
\* fromCache = true and error = true, and the entry it read is still the
\* entry of its address, without an error field
C32_Witness ==
    \E c \in DOMAIN calls :
        LET q == calls[c]
        IN /\ q.pc = "done" /\ q.result.kind = "return"
           /\ Get(q.result.value, "error") = Bool(TRUE)
           /\ Get(q.result.value, "fromCache") = Bool(TRUE)
           /\ q.freshData = Undefined /\ q.cached # Undefined
           /\ cache[q.serverAddress] = q.cached
           /\ Get(cache[q.serverAddress].data, "error") = Undefined

---------------------------------------------------------------------------
(* C33: the check button *)

\* C33: once a check has been asked for and no check is waiting, the check
\* button is enabled and shows the label it had before the first check,
\* whatever the order in which the checks completed.
C33_ButtonRestoredAfterAllChecks ==
    ((\E k \in Checks : app.checks[k].pc # "idle")
        /\ (\A k \in Checks : app.checks[k].pc # "waiting"))
    => app.checkBtn = [innerHTML |-> CheckLabel, disabled |-> FALSE]

====
